---- MODULE Spec2Model ----
(***************************************************************************)
(* Model of the two signature extractors of rhino_api_for_llm:             *)
(*   src/extract_api_signatures.py              (metadata pipeline)        *)
(*   src/extract_rhinoscriptsyntax_signatures.py (free-text pipeline)      *)
(*                                                                         *)
(* A Python str is modelled as a sequence of one-character strings, so     *)
(* that splitting, trimming, searching and formatting are computed and     *)
(* not assumed.  Python's None is the sentinel None below, which is not    *)
(* a sequence of characters.                                               *)
(***************************************************************************)
EXTENDS Integers, Sequences, FiniteSets, TLC

VARIABLES fn, arg, ret, ret2, lines, nfiles, status

vars == <<fn, arg, ret, ret2, lines, nfiles, status>>

(***************************************************************************)
(* Python values and str methods                                           *)
(***************************************************************************)

\* Python's None: a one-element sequence whose element is no character.
None == <<"None#">>

\* Python truthiness of an optional string: None and '' are falsy.
Truthy(x) == x # None /\ x # <<>>

\* x or y
OrElse(x, y) == IF Truthy(x) THEN x ELSE y

\* str.isspace() for one character
IsSpace(c) == c \in {" ", "\n", "\t", "\r"}

\* The characters of the model in ASCII order: the order of str comparison.
AsciiOrder == <<"\t","\n","\r"," ","#","(",")",",","-",".","0","1","2","3","4","5","6","7","8","9",":","<","=",">","?","@","A","B","C","D","E","F","G","H","I","J","K","L","M","N","O","P","Q","R","S","T","U","V","W","X","Y","Z","[","]","_","a","b","c","d","e","f","g","h","i","j","k","l","m","n","o","p","q","r","s","t","u","v","w","x","y","z","{","}">>

Ord(c) == CHOOSE i \in 1..Len(AsciiOrder) : AsciiOrder[i] = c

UpperChars == <<"A","B","C","D","E","F","G","H","I","J","K","L","M","N","O","P","Q","R","S","T","U","V","W","X","Y","Z">>

LowerChars == <<"a","b","c","d","e","f","g","h","i","j","k","l","m","n","o","p","q","r","s","t","u","v","w","x","y","z">>

Digits == {"0", "1", "2", "3", "4", "5", "6", "7", "8", "9"}

IsUpper(c) == \E i \in 1..Len(UpperChars) : UpperChars[i] = c

IsAlpha(c) == IsUpper(c) \/ \E i \in 1..Len(LowerChars) : LowerChars[i] = c

\* the regular-expression class \w
IsWord(c) == IsAlpha(c) \/ c \in Digits \/ c = "_"

LowerChar(c) == IF IsUpper(c) THEN LowerChars[CHOOSE i \in 1..Len(UpperChars) : UpperChars[i] = c] ELSE c

\* str.lower()
Lower(s) == [i \in 1..Len(s) |-> LowerChar(s[i])]

MinOf(S) == CHOOSE x \in S : \A y \in S : x <= y

MaxOf(S) == CHOOSE x \in S : \A y \in S : x >= y

\* x = e followed by Body(x): e is computed once and x names its value
Bind(e, Body(_)) == CHOOSE r \in {Body(x) : x \in {e}} : TRUE

\* str.strip()
Strip(s) ==
    LET idx == {i \in 1..Len(s) : ~IsSpace(s[i])}
    IN  IF idx = {} THEN <<>> ELSE SubSeq(s, MinOf(idx), MaxOf(idx))

\* str.rstrip()
RStrip(s) ==
    LET idx == {i \in 1..Len(s) : ~IsSpace(s[i])}
    IN  IF idx = {} THEN <<>> ELSE SubSeq(s, 1, MaxOf(idx))

\* s[i:] with i counted from 1
From(s, i) == SubSeq(s, i, Len(s))

\* the positions at which sub occurs in s
Occurrences(s, sub) == {i \in 1..(Len(s) - Len(sub) + 1) : SubSeq(s, i, i + Len(sub) - 1) = sub}

\* sub in s
Contains(s, sub) == Occurrences(s, sub) # {}

\* s.index(sub), counted from 1
Find(s, sub) == MinOf(Occurrences(s, sub))

\* s.rindex(sub), counted from 1
RFind(s, sub) == MaxOf(Occurrences(s, sub))

\* s.startswith(p)
StartsWith(s, p) == Len(s) >= Len(p) /\ SubSeq(s, 1, Len(p)) = p

\* s.endswith(p)
EndsWith(s, p) == Len(s) >= Len(p) /\ SubSeq(s, Len(s) - Len(p) + 1, Len(s)) = p

\* s.split(sep, 1): one or two parts
SplitFirst(s, sep) ==
    IF Contains(s, sep)
    THEN <<SubSeq(s, 1, Find(s, sep) - 1), From(s, Find(s, sep) + Len(sep))>>
    ELSE <<s>>

\* s.rsplit(sep, 1): one or two parts
RSplitLast(s, sep) ==
    IF Contains(s, sep)
    THEN <<SubSeq(s, 1, RFind(s, sep) - 1), From(s, RFind(s, sep) + Len(sep))>>
    ELSE <<s>>

\* s.split(sep)
RECURSIVE SplitAll(_, _)
SplitAll(s, sep) ==
    IF Contains(s, sep)
    THEN <<SubSeq(s, 1, Find(s, sep) - 1)>> \o SplitAll(From(s, Find(s, sep) + Len(sep)), sep)
    ELSE <<s>>

\* s.split(): the maximal runs of non-whitespace characters
RECURSIVE SplitWS(_)
SplitWS(s) ==
    LET idx == {i \in 1..Len(s) : ~IsSpace(s[i])}
    IN  IF idx = {} THEN <<>>
        ELSE LET b == MinOf(idx)
                 stops == {j \in b..Len(s) : IsSpace(s[j])}
                 e == IF stops = {} THEN Len(s) + 1 ELSE MinOf(stops)
             IN  <<SubSeq(s, b, e - 1)>> \o SplitWS(From(s, e))

\* sep.join(parts)
RECURSIVE Join(_, _)
Join(parts, sep) ==
    IF parts = <<>> THEN <<>>
    ELSE IF Len(parts) = 1 THEN parts[1]
    ELSE parts[1] \o sep \o Join(Tail(parts), sep)

\* s.replace(old, new)
RECURSIVE Replace(_, _, _)
Replace(s, old, new) ==
    IF Contains(s, old)
    THEN SubSeq(s, 1, Find(s, old) - 1) \o new \o Replace(From(s, Find(s, old) + Len(old)), old, new)
    ELSE s

\* parts[-1]
Last(parts) == parts[Len(parts)]

\* every string over the characters A of at most n characters
StringsUpTo(A, n) == UNION {[1..k -> A] : k \in 0..n}

\* every sequence over the set S of at most n elements
SeqsUpTo(S, n) == UNION {[1..k -> S] : k \in 0..n}

\* the concatenation of a sequence of strings
Concat(parts) == Join(parts, <<>>)

(***************************************************************************)
(* split_types_list  (src/extract_api_signatures.py:67-106)                *)
(***************************************************************************)

\* a mutant of AtTopLevel: the parenthesis counter is not consulted
AtTopLevelNoParen(depth_angle, depth_curly, depth_paren) == depth_angle = 0 /\ depth_curly = 0

\* line 97: the condition under which a ',' cuts
AtTopLevel(depth_angle, depth_curly, depth_paren) == depth_angle = 0 /\ depth_curly = 0 /\ depth_paren = 0

\* lines 78-101: the loop over the characters; st is the loop's state
SplitStep(st, ch) ==
    CASE ch = "<" -> [st EXCEPT !.depth_angle = @ + 1, !.buf = Append(@, ch)]
      [] ch = ">" -> [st EXCEPT !.depth_angle = IF @ - 1 > 0 THEN @ - 1 ELSE 0, !.buf = Append(@, ch)]
      [] ch = "{" -> [st EXCEPT !.depth_curly = @ + 1, !.buf = Append(@, ch)]
      [] ch = "}" -> [st EXCEPT !.depth_curly = IF @ - 1 > 0 THEN @ - 1 ELSE 0, !.buf = Append(@, ch)]
      [] ch = "(" -> [st EXCEPT !.depth_paren = @ + 1, !.buf = Append(@, ch)]
      [] ch = ")" -> [st EXCEPT !.depth_paren = IF @ - 1 > 0 THEN @ - 1 ELSE 0, !.buf = Append(@, ch)]
      [] ch = "," /\ AtTopLevel(st.depth_angle, st.depth_curly, st.depth_paren)
                  -> [st EXCEPT !.parts = Append(@, Strip(st.buf)), !.buf = <<>>]
      [] OTHER    -> [st EXCEPT !.buf = Append(@, ch)]

\* the loop over s[lo..hi], entered in state st: the state after the first
\* half of the characters is the state in which the second half is entered
RECURSIVE SplitLoop(_, _, _, _)
SplitLoop(s, lo, hi, st) ==
    IF lo > hi THEN st
    ELSE IF lo = hi THEN SplitStep(st, s[lo])
    ELSE Bind(SplitLoop(s, lo, (lo + hi) \div 2, st),
              LAMBDA half : SplitLoop(s, (lo + hi) \div 2 + 1, hi, half))

NonEmpty(p) == p # <<>>

split_types_list(s) ==
    LET st0 == [parts |-> <<>>, buf |-> <<>>, depth_angle |-> 0, depth_curly |-> 0, depth_paren |-> 0]
        st == SplitLoop(s, 1, Len(s), st0)
        parts == IF st.buf # <<>> THEN Append(st.parts, Strip(st.buf)) ELSE st.parts
    IN  SelectSeq(parts, NonEmpty)

(***************************************************************************)
(* Specification: split_types_list applied to one string                   *)
(***************************************************************************)

MaxSplitLen == 4

SplitAlphabet == {"a", ",", " ", "<", ">", "{", "}", "(", ")"}

SplitExamples == { <<"D","i","c","t","{","K",",","V","}",","," ","s","t","r">>, <<"F","u","n","c","<","A",",","(","B",",","C",")",">",",","{","x",",","y","}"," ",","," ",",","z">>, <<"a",">",",","b","}",",","c",")",",","d">> }

SplitInputs == StringsUpTo(SplitAlphabet, MaxSplitLen) \cup SplitExamples

Init ==
    /\ fn = "none"
    /\ arg = <<>>
    /\ ret = <<>>
    /\ ret2 = None
    /\ lines = <<>>
    /\ nfiles = 0
    /\ status = "idle"

CallSplitTypesList ==
    /\ fn = "none"
    /\ \E s \in SplitInputs :
         /\ fn' = "split_types_list"
         /\ arg' = s
         /\ ret' = split_types_list(s)
    /\ UNCHANGED <<ret2, lines, nfiles, status>>

NextSplit == CallSplitTypesList

SpecSplit == Init /\ [][NextSplit]_vars

(***************************************************************************)
(* C1                                                                      *)
(***************************************************************************)

\* the number of o's less the number of c's in s[1..i]
ScopeBalance(s, i, o, c) ==
    Cardinality({k \in 1..i : s[k] = o}) - Cardinality({k \in 1..i : s[k] = c})

\* the clamped count of the scopes opened by o and closed by c in s[1..i]:
\* a c met at count 0 is not counted, so the count is the balance less the
\* lowest balance any prefix reached
ScopeDepth(s, i, o, c) ==
    ScopeBalance(s, i, o, c) - MinOf({ScopeBalance(s, j, o, c) : j \in 0..i})

\* position i of s lies inside an open <...>, {...} or (...) scope
InOpenScope(s, i) ==
    \/ ScopeDepth(s, i - 1, "<", ">") > 0
    \/ ScopeDepth(s, i - 1, "{", "}") > 0
    \/ ScopeDepth(s, i - 1, "(", ")") > 0

\* the positions of the separators that lie outside every open scope
CutPoints(s) == {i \in 1..Len(s) : s[i] = "," /\ ~InOpenScope(s, i)}

\* the k-th of the cut points, in order, framed by 0 and Len(s) + 1
RECURSIVE NthCut(_, _)
NthCut(C, k) == IF k = 0 THEN 0 ELSE MinOf({c \in C : c > NthCut(C, k - 1)})

\* the trimmed, non-empty segments between the cut points, in order
TrimmedSegments(s) ==
    LET C == CutPoints(s) \cup {Len(s) + 1}
        n == Cardinality(C)
        seg == [k \in 1..n |-> Strip(SubSeq(s, NthCut(C, k - 1) + 1, NthCut(C, k) - 1))]
    IN  SelectSeq(seg, NonEmpty)

\* C1: split_types_list(s) is, in order, the trimmed non-empty segments of s
\* cut at exactly the ',' outside every open scope; no result segment of a
\* string without a top-level ',' is a proper piece of it; and
\* "Dict{K,V}, str" yields ["Dict{K,V}", "str"].
C1_SplitIsScopeAware ==
    fn = "split_types_list" =>
        /\ ret = TrimmedSegments(arg)
        /\ (CutPoints(arg) = {} /\ Strip(arg) # <<>> => ret = <<Strip(arg)>>)
        /\ (arg = <<"D","i","c","t","{","K",",","V","}",","," ","s","t","r">> => ret = <<<<"D","i","c","t","{","K",",","V","}">>, <<"s","t","r">>>>)

\* C1 witness: a string with one ',' inside a scope and one outside was split
C1_Witness ==
    /\ fn = "split_types_list"
    /\ arg = <<"D","i","c","t","{","K",",","V","}",","," ","s","t","r">>
    /\ Len(ret) = 2

(***************************************************************************)
(* parse_help_id  (src/extract_api_signatures.py:108-135)                  *)
(***************************************************************************)

\* the outcome of a call: a returned value, or an exception that propagates
Return(v) == [exc |-> "none", val |-> v]

Raise(e) == [exc |-> e, val |-> None]

\* a mutant of SplitMember: the identity is cut at its first '.'
SplitMemberAtFirstDot(left) == SplitFirst(left, <<".">>)

\* line 132: left.rsplit('.', 1)
SplitMember(left) == RSplitLast(left, <<".">>)

\* line 116
NotAMethodId(help_id) == ~Truthy(help_id) \/ ~StartsWith(help_id, <<"M",":">>)

parse_help_id(help_id) ==
    IF NotAMethodId(help_id) THEN Return(<<None, None, <<>>>>)
    ELSE
    LET body == From(help_id, 3)
        cut == SplitFirst(body, <<"(">>)
        left == IF Contains(body, <<"(">>) THEN cut[1] ELSE body
        params_part ==
            IF Contains(body, <<"(">>)
            THEN (IF Contains(cut[2], <<")">>) THEN RSplitLast(cut[2], <<")">>)[1] ELSE cut[2])
            ELSE <<>>
        param_types == IF params_part # <<>> THEN split_types_list(params_part) ELSE <<>>
    IN  IF Contains(left, <<".","#","c","t","o","r">>)
        THEN Return(<<SplitAll(left, <<".","#","c","t","o","r">>)[1], <<"#","c","t","o","r">>, param_types>>)
        ELSE IF Len(SplitMember(left)) # 2
        THEN Raise("ValueError")   \* line 132: one value cannot be unpacked into two names
        ELSE Return(<<SplitMember(left)[1], SplitMember(left)[2], param_types>>)

(***************************************************************************)
(* Specification: parse_help_id applied to one metadata value              *)
(***************************************************************************)

MaxIdSegments == 3

IdPrefixes == { <<"M",":">>, <<"T",":">>, <<"P",":">>, <<>>, <<"m",":">> }

IdSegments == { <<"N","s">>, <<"C","l","s">>, <<"F","o","o">>, <<"#","c","t","o","r">> }

IdSuffixes == { <<>>, <<"(",")">>, <<"(","N","s",".","A",",","N","s",".","B",")">>, <<"(","D","i","c","t","{","K",",","V","}",","," ","S","y","s","t","e","m",".","I","n","t","3","2",")">>, <<"(","N","s",".","A">>, <<"(","F","(","x",")",",","y",")","z">> }

HelpIdInputs ==
    { pre \o Join(segs, <<".">>) \o suf :
        pre \in IdPrefixes, segs \in SeqsUpTo(IdSegments, MaxIdSegments), suf \in IdSuffixes }

CallParseHelpId ==
    /\ fn = "none"
    /\ \E h \in HelpIdInputs :
         /\ fn' = "parse_help_id"
         /\ arg' = h
         /\ ret' = parse_help_id(h)
    /\ UNCHANGED <<ret2, lines, nfiles, status>>

NextHelpId == CallParseHelpId

SpecHelpId == Init /\ [][NextHelpId]_vars

(***************************************************************************)
(* C3                                                                      *)
(***************************************************************************)

\* the part of a metadata value after the method marker
IdBody(h) == From(h, 3)

\* the identity part: the text before the first '(' of the body
IdLeft(h) == SubSeq(IdBody(h), 1, MinOf({i \in 1..Len(IdBody(h)) : IdBody(h)[i] = "("}) - 1)

\* the text between the first '(' and the final ')' of the body
IdTypesText(h) ==
    SubSeq(IdBody(h), MinOf({i \in 1..Len(IdBody(h)) : IdBody(h)[i] = "("}) + 1,
                      MaxOf({i \in 1..Len(IdBody(h)) : IdBody(h)[i] = ")"}) - 1)

\* h has the shape M:<left>(<types>)...
IsMethodForm(h) ==
    /\ StartsWith(h, <<"M",":">>)
    /\ \E i, j \in 1..Len(IdBody(h)) : i < j /\ IdBody(h)[i] = "(" /\ IdBody(h)[j] = ")"

\* h is M:<container>.<member>(<types>) with an ordinary member
IsOrdinaryForm(h) ==
    /\ IsMethodForm(h)
    /\ Contains(IdLeft(h), <<".">>)
    /\ ~Contains(IdLeft(h), <<"#","c","t","o","r">>)

\* h is M:<container>.#ctor(<types>) with the marker as the last segment only
IsCtorForm(h) ==
    /\ IsMethodForm(h)
    /\ EndsWith(IdLeft(h), <<".","#","c","t","o","r">>)
    /\ Cardinality(Occurrences(IdLeft(h), <<".","#","c","t","o","r">>)) = 1

\* C3: parse_help_id returns (None, None, []) for every input that does not
\* start with 'M:'; for M:<container>.<member>(<types>) the container and the
\* member are the identity cut at its last '.', and the types are the
\* delimiter-aware split of the text between the first '(' and the final ')';
\* for M:<container>.#ctor(...) the container is the text before '.#ctor' and
\* the member is '#ctor'.
C3_ParseHelpId ==
    fn = "parse_help_id" =>
        /\ (~StartsWith(arg, <<"M",":">>) => ret = Return(<<None, None, <<>>>>))
        /\ (IsOrdinaryForm(arg) =>
              /\ ret.exc = "none"
              /\ ret.val[1] \o <<".">> \o ret.val[2] = IdLeft(arg)
              /\ ~Contains(ret.val[2], <<".">>)
              /\ ret.val[3] = TrimmedSegments(IdTypesText(arg)))
        /\ (IsCtorForm(arg) =>
              /\ ret.exc = "none"
              /\ ret.val[1] \o <<".","#","c","t","o","r">> = IdLeft(arg)
              /\ ret.val[2] = <<"#","c","t","o","r">>
              /\ ret.val[3] = TrimmedSegments(IdTypesText(arg)))
        /\ (arg = <<"M",":","N","s",".","C","l","s",".","#","c","t","o","r","(","N","s",".","A",",","N","s",".","B",")">> => ret.val = <<<<"N","s",".","C","l","s">>, <<"#","c","t","o","r">>, <<<<"N","s",".","A">>, <<"N","s",".","B">>>>>>)
        /\ (arg = <<"M",":","N","s",".","C","l","s",".","F","o","o","(",")">> => ret.val = <<<<"N","s",".","C","l","s">>, <<"F","o","o">>, <<>>>>)

\* C3 witness: an ordinary method with two dot-segments of container and two
\* parameter types was parsed
C3_Witness ==
    /\ fn = "parse_help_id"
    /\ arg = <<"M",":","N","s",".","C","l","s",".","F","o","o","(","N","s",".","A",",","N","s",".","B",")">>
    /\ ret.val = <<<<"N","s",".","C","l","s">>, <<"F","o","o">>, <<<<"N","s",".","A">>, <<"N","s",".","B">>>>>>

(***************************************************************************)
(* parse_csharp_signature  (src/extract_api_signatures.py:137-215)         *)
(***************************************************************************)

CS_ACCESS_KWS == { <<"p","u","b","l","i","c">>, <<"p","r","i","v","a","t","e">>, <<"p","r","o","t","e","c","t","e","d">>, <<"i","n","t","e","r","n","a","l">> }

CS_MODIFIER_KWS ==
    { <<"s","t","a","t","i","c">>, <<"v","i","r","t","u","a","l">>, <<"o","v","e","r","r","i","d","e">>, <<"s","e","a","l","e","d">>, <<"e","x","t","e","r","n">>, <<"u","n","s","a","f","e">>,
      <<"a","b","s","t","r","a","c","t">>, <<"n","e","w">>, <<"r","e","a","d","o","n","l","y">>, <<"p","a","r","t","i","a","l">>, <<"a","s","y","n","c">> }

\* lines 158-159: keep the text up to and including its first ')'
TruncateAtFirstClose(text) ==
    IF Contains(text, <<")">>) THEN SubSeq(text, 1, Find(text, <<")">>)) ELSE text

\* line 162: ' '.join(text.replace('\n', ' ').split())
OneLine(text) == Join(SplitWS(Replace(text, <<"\n">>, <<" ">>)), <<" ">>)

\* a mutant of IsStaticText: the flag is set by the substring 'static' alone
IsStaticSubstring(oneline) == Contains(oneline, <<"s","t","a","t","i","c">>)

\* line 167: ' static ' in f' {oneline} '
IsStaticText(oneline) == Contains(<<" ">> \o oneline \o <<" ">>, <<" ","s","t","a","t","i","c"," ">>)

\* line 178: the test that keeps a head token
IsHeadToken(t) == t \notin CS_ACCESS_KWS /\ t \notin CS_MODIFIER_KWS

\* line 197: re.sub(r'\s*=\s*[^,]+$', '', p).  The match starts at the
\* whitespace before the first '=' that is followed, up to the end of p, by
\* one or more characters none of which is a ','.
StripDefault(p) ==
    LET eqs == {k \in 1..(Len(p) - 1) : p[k] = "=" /\ \A j \in (k + 1)..Len(p) : p[j] # ","}
    IN  IF eqs = {} THEN p
        ELSE LET k == MinOf(eqs)
                 start == MinOf({i \in 1..k : \A j \in i..(k - 1) : IsSpace(p[j])})
             IN  SubSeq(p, 1, start - 1)

\* the alternatives of the pattern of line 198, in its order
QualifierKws == << <<"t","h","i","s">>, <<"r","e","f">>, <<"o","u","t">>, <<"p","a","r","a","m","s">>, <<"i","n">> >>

\* line 198: re.sub(r'^(this|ref|out|params|in)\s+', '', p)
StripQualifier(p) ==
    LET hits == {i \in 1..Len(QualifierKws) :
                    /\ StartsWith(p, QualifierKws[i])
                    /\ Len(p) > Len(QualifierKws[i])
                    /\ IsSpace(p[Len(QualifierKws[i]) + 1])}
    IN  IF hits = {} THEN p
        ELSE LET n == Len(QualifierKws[MinOf(hits)])
                 rest == {j \in (n + 1)..Len(p) : ~IsSpace(p[j])}
             IN  IF rest = {} THEN <<>> ELSE From(p, MinOf(rest))

\* name.rstrip(c) for one character c
RStripChar(s, c) ==
    LET idx == {i \in 1..Len(s) : s[i] # c}
    IN  IF idx = {} THEN <<>> ELSE SubSeq(s, 1, MaxOf(idx))

\* name.lstrip(c) for one character c
LStripChar(s, c) ==
    LET idx == {i \in 1..Len(s) : s[i] # c}
    IN  IF idx = {} THEN <<>> ELSE From(s, MinOf(idx))

\* line 210: re.match(r'^[A-Za-z_]\w*$', name)
IsIdentifier(name) ==
    /\ name # <<>>
    /\ IsAlpha(name[1]) \/ name[1] = "_"
    /\ \A i \in 2..Len(name) : IsWord(name[i])

\* str(k) for k >= 0
RECURSIVE Decimal(_)
Decimal(k) ==
    LET d == <<"0", "1", "2", "3", "4", "5", "6", "7", "8", "9">>[(k % 10) + 1]
    IN  IF k < 10 THEN <<d>> ELSE Append(Decimal(k \div 10), d)

\* a mutant of ArgName: the placeholder counts from 0
ArgNameFromZero(k) == <<"a","r","g">> \o Decimal(k - 1)

\* lines 211, 214 and 298: f'arg{k}'
ArgName(k) == <<"a","r","g">> \o Decimal(k)

\* lines 196-214: the name taken from the k-th segment of the parameter list
ParamName(seg, k) ==
    LET p == StripQualifier(StripDefault(Strip(seg)))
        tokens == SplitWS(p)
        name == LStripChar(Replace(RStripChar(Last(tokens), ","), <<"[","]">>, <<>>), "@")
    IN  IF tokens = <<>> THEN ArgName(k)
        ELSE IF IsIdentifier(name) THEN name
        ELSE ArgName(k)

\* a mutant of HeadOf: without both parentheses nothing is taken from the text
HeadOfNothingWithoutParens(oneline) ==
    IF Contains(oneline, <<"(">>) /\ Contains(oneline, <<")">>) THEN SplitFirst(oneline, <<"(">>)[1] ELSE <<>>

\* lines 171-175: the head is the text before the first '(' or, without both
\* parentheses, the whole line
HeadOf(oneline) ==
    IF Contains(oneline, <<"(">>) /\ Contains(oneline, <<")">>) THEN SplitFirst(oneline, <<"(">>)[1] ELSE oneline

\* lines 170-173
ParamsPartOf(oneline) ==
    IF Contains(oneline, <<"(">>) /\ Contains(oneline, <<")">>)
    THEN Strip(RSplitLast(SplitFirst(oneline, <<"(">>)[2], <<")">>)[1])
    ELSE <<>>

\* the function returns (return_type, method_name, param_names, is_static);
\* container_simple is not read by the code
parse_csharp_signature(cs_text, container_simple) ==
    IF cs_text = <<>> THEN <<None, None, <<>>, FALSE>>
    ELSE
    LET oneline == OneLine(TruncateAtFirstClose(Strip(cs_text)))
        is_static == IsStaticText(oneline)
        head_tokens == SelectSeq(SplitWS(Strip(HeadOf(oneline))), IsHeadToken)
        n == Len(head_tokens)
        method_name == IF n >= 1 THEN head_tokens[n] ELSE None
        return_type == IF n >= 2 THEN head_tokens[n - 1] ELSE None
        params_part == ParamsPartOf(oneline)
        parts == IF params_part # <<>> THEN split_types_list(params_part) ELSE <<>>
        param_names == [k \in 1..Len(parts) |-> ParamName(parts[k], k)]
    IN  <<return_type, method_name, param_names, is_static>>

(***************************************************************************)
(* Specification: parse_csharp_signature applied to one code sample        *)
(***************************************************************************)

MaxHeadTokens == 3

MaxParams == 2

SampleHeadTokens == { <<"p","u","b","l","i","c">>, <<"s","t","a","t","i","c">>, <<"v","o","i","d">>, <<"S","e","t","C","o","l","o","r">> }

SampleParams == { <<"C","o","l","o","r"," ","c">>, <<"r","e","f"," ","i","n","t","[","]"," ","x","s">>, <<"d","o","u","b","l","e"," ","t"," ","="," ","1",".","0">>, <<"i","n","t"," ","9","x">> }

\* how a sample is laid out: <head><open><params joined by sep><close>
SampleLayouts ==
    { [open |-> <<"("," ">>, sep |-> <<","," ">>, close |-> <<" ",")">>],
      [open |-> <<"(","\n"," "," ">>, sep |-> <<",","\n"," "," ">>, close |-> <<"\n",")","\n","{"," ","g","e","t","(",")",";"," ","}">>] }

IsKeywordToken(t) == t \in CS_ACCESS_KWS \cup CS_MODIFIER_KWS

\* a sample <head>( <type> <pname>, ... ); it has the form
\* <modifiers> [<return>] <name>( ... ) when a name precedes the '('
FormedSample(head, params, lay) ==
    [text |-> Join(head, <<" ">>) \o lay.open \o Join(params, lay.sep) \o lay.close,
     head |-> head, params |-> params,
     form |-> IF head # <<>> /\ ~IsKeywordToken(Last(head)) THEN "call" ELSE "nameless"]

\* a sample without any parenthesis: the head alone
BareSample(head) == [text |-> Join(head, <<" ">>), head |-> head, params |-> <<>>, form |-> "bare"]

\* a sample that is only white space
BlankSamples == { [text |-> t, head |-> <<>>, params |-> <<>>, form |-> "blank"] : t \in { <<>>, <<" ">>, <<"\n"," ","\n">> } }

CsInputs ==
    { FormedSample(h, p, l) :
        h \in SeqsUpTo(SampleHeadTokens, MaxHeadTokens), p \in SeqsUpTo(SampleParams, MaxParams), l \in SampleLayouts }
    \cup { BareSample(h) : h \in SeqsUpTo(SampleHeadTokens, MaxHeadTokens) }
    \cup BlankSamples
    \cup { FormedSample(<<<<"p","u","b","l","i","c">>, <<"s","t","a","t","i","c">>, <<"v","o","i","d">>, <<"S","e","t","C","o","l","o","r">>>>, <<<<"C","o","l","o","r"," ","c">>, <<"b","o","o","l"," ","f","o","r","c","e">>>>, [open |-> <<"("," ">>, sep |-> <<","," ">>, close |-> <<" ",")">>]),
           FormedSample(<<<<"p","u","b","l","i","c">>, <<"C","o","l","o","r","H","S","L">>>>, <<<<"C","o","l","o","r"," ","r","g","b">>>>, [open |-> <<"("," ">>, sep |-> <<","," ">>, close |-> <<" ",")">>]) }

CallParseCsharpSignature ==
    /\ fn = "none"
    /\ \E x \in CsInputs :
         /\ fn' = "parse_csharp_signature"
         /\ arg' = x
         /\ ret' = parse_csharp_signature(x.text, None)
    /\ UNCHANGED <<ret2, lines, nfiles, status>>

NextCs == CallParseCsharpSignature

SpecCs == Init /\ [][NextCs]_vars

(***************************************************************************)
(* C4, C5                                                                  *)
(***************************************************************************)

NotKeywordToken(t) == ~IsKeywordToken(t)

\* the tokens of a head that are no access or modifier keyword
NameTokens(head) == SelectSeq(head, NotKeywordToken)

\* the last name token, or None
ExpectedMember(head) ==
    IF NameTokens(head) = <<>> THEN None ELSE NameTokens(head)[Len(NameTokens(head))]

\* the second-to-last name token, or None
ExpectedReturn(head) ==
    IF Len(NameTokens(head)) < 2 THEN None ELSE NameTokens(head)[Len(NameTokens(head)) - 1]

HasStaticToken(head) == \E i \in 1..Len(head) : head[i] = <<"s","t","a","t","i","c">>

NothingRecovered == <<None, None, <<>>, FALSE>>

\* C4 as stated: (None, None, [], False) both for an empty sample and for a
\* sample that contains no parenthesis.
C4_Original ==
    fn = "parse_csharp_signature" /\ (arg.text = <<>> \/ (~Contains(arg.text, <<"(">>) /\ ~Contains(arg.text, <<")">>)))
        => ret = NothingRecovered

\* C4 amended: an empty or blank sample yields (None, None, [], False); a
\* sample without parenthesis yields no parameter names, but its member
\* name, return type and static flag are still taken from its tokens, so it
\* yields (None, None, [], False) only when it names nothing and has no
\* 'static' token.
C4_ShortfallResult ==
    fn = "parse_csharp_signature" =>
        /\ (arg.form = "blank" => ret = NothingRecovered)
        /\ (arg.form = "bare" =>
              /\ ret = <<ExpectedReturn(arg.head), ExpectedMember(arg.head), <<>>, HasStaticToken(arg.head)>>
              /\ (ret = NothingRecovered <=> NameTokens(arg.head) = <<>> /\ ~HasStaticToken(arg.head)))

\* C4 witness: a sample without parenthesis from which a name, a return type
\* and the static flag were recovered
C4_Witness ==
    /\ fn = "parse_csharp_signature"
    /\ arg.form = "bare"
    /\ arg.text = <<"s","t","a","t","i","c"," ","v","o","i","d"," ","S","e","t","C","o","l","o","r">>
    /\ ret = <<<<"v","o","i","d">>, <<"S","e","t","C","o","l","o","r">>, <<>>, TRUE>>

\* the parameter name each sample segment declares
DeclaredNames ==
    { <<<<"C","o","l","o","r"," ","c">>, <<"c">>>>, <<<<"r","e","f"," ","i","n","t","[","]"," ","x","s">>, <<"x","s">>>>, <<<<"d","o","u","b","l","e"," ","t"," ","="," ","1",".","0">>, <<"t">>>>,
      <<<<"i","n","t"," ","9","x">>, <<"9","x">>>>, <<<<"b","o","o","l"," ","f","o","r","c","e">>, <<"f","o","r","c","e">>>>, <<<<"C","o","l","o","r"," ","r","g","b">>, <<"r","g","b">>>> }

DeclaredName(seg) == (CHOOSE p \in DeclaredNames : p[1] = seg)[2]

Placeholders == << <<"a","r","g","1">>, <<"a","r","g","2">>, <<"a","r","g","3">>, <<"a","r","g","4">> >>

\* C5: on <modifiers> [<return>] <name>( <type> <pname>, ... ) the member name
\* is the last head token that is no keyword, the return type the
\* second-to-last (None when one remains), the static flag is set exactly
\* when the head holds a 'static' token, and there is one name per parameter,
\* the declared name when it is a bare identifier and else arg<k>.
C5_ParseCsharpSignature ==
    fn = "parse_csharp_signature" /\ arg.form = "call" =>
        /\ ret[2] = ExpectedMember(arg.head)
        /\ ret[1] = ExpectedReturn(arg.head)
        /\ ret[4] = HasStaticToken(arg.head)
        /\ Len(ret[3]) = Len(arg.params)
        /\ \A k \in 1..Len(arg.params) :
              /\ ret[3][k] = IF IsIdentifier(DeclaredName(arg.params[k]))
                             THEN DeclaredName(arg.params[k]) ELSE Placeholders[k]
              /\ IsIdentifier(ret[3][k])
        /\ (arg.text = <<"p","u","b","l","i","c"," ","s","t","a","t","i","c"," ","v","o","i","d"," ","S","e","t","C","o","l","o","r","("," ","C","o","l","o","r"," ","c",","," ","b","o","o","l"," ","f","o","r","c","e"," ",")">>
              => ret = <<<<"v","o","i","d">>, <<"S","e","t","C","o","l","o","r">>, <<<<"c">>, <<"f","o","r","c","e">>>>, TRUE>>)
        /\ (arg.text = <<"p","u","b","l","i","c"," ","C","o","l","o","r","H","S","L","("," ","C","o","l","o","r"," ","r","g","b"," ",")">>
              => ret = <<None, <<"C","o","l","o","r","H","S","L">>, <<<<"r","g","b">>>>, FALSE>>)

\* C5 witness: a static method whose second parameter has no usable name
C5_Witness ==
    /\ fn = "parse_csharp_signature"
    /\ arg.form = "call"
    /\ arg.head = <<<<"p","u","b","l","i","c">>, <<"s","t","a","t","i","c">>, <<"v","o","i","d">>, <<"S","e","t","C","o","l","o","r">>>>
    /\ ret = <<<<"v","o","i","d">>, <<"S","e","t","C","o","l","o","r">>, <<<<"c">>, <<"f","o","r","c","e">>>>, TRUE>>

\* C5 witness of the placeholder: a parameter without a usable name got arg2
C5_PlaceholderReached ==
    /\ fn = "parse_csharp_signature"
    /\ arg.form = "call"
    /\ arg.params = <<<<"C","o","l","o","r"," ","c">>, <<"i","n","t"," ","9","x">>>>
    /\ ret[3] = <<<<"c">>, <<"a","r","g","2">>>>

(***************************************************************************)
(* map_dotnet_to_python  (src/extract_api_signatures.py:218-277)           *)
(***************************************************************************)

\* a table is a set of <<key, value>> pairs
HasKey(table, k) == \E p \in table : p[1] = k

Lookup(table, k) == (CHOOSE p \in table : p[1] = k)[2]

\* lines 221-238
aliases ==
    { <<<<"S","y","s","t","e","m",".","V","o","i","d">>, <<"N","o","n","e">>>>, <<<<"v","o","i","d">>, <<"N","o","n","e">>>>,
      <<<<"S","y","s","t","e","m",".","B","o","o","l","e","a","n">>, <<"b","o","o","l">>>>, <<<<"b","o","o","l">>, <<"b","o","o","l">>>>,
      <<<<"S","y","s","t","e","m",".","D","o","u","b","l","e">>, <<"f","l","o","a","t">>>>, <<<<"d","o","u","b","l","e">>, <<"f","l","o","a","t">>>>,
      <<<<"S","y","s","t","e","m",".","S","i","n","g","l","e">>, <<"f","l","o","a","t">>>>, <<<<"f","l","o","a","t">>, <<"f","l","o","a","t">>>>,
      <<<<"S","y","s","t","e","m",".","I","n","t","3","2">>, <<"i","n","t">>>>, <<<<"i","n","t">>, <<"i","n","t">>>>,
      <<<<"S","y","s","t","e","m",".","I","n","t","6","4">>, <<"i","n","t">>>>, <<<<"l","o","n","g">>, <<"i","n","t">>>>,
      <<<<"S","y","s","t","e","m",".","S","t","r","i","n","g">>, <<"s","t","r">>>>, <<<<"s","t","r","i","n","g">>, <<"s","t","r">>>>,
      <<<<"S","y","s","t","e","m",".","O","b","j","e","c","t">>, <<"A","n","y">>>>, <<<<"o","b","j","e","c","t">>, <<"A","n","y">>>> }

\* lines 258-267
base_map ==
    { <<<<"S","y","s","t","e","m",".","C","o","l","l","e","c","t","i","o","n","s",".","G","e","n","e","r","i","c",".","L","i","s","t">>, <<"L","i","s","t">>>>,
      <<<<"S","y","s","t","e","m",".","C","o","l","l","e","c","t","i","o","n","s",".","G","e","n","e","r","i","c",".","I","L","i","s","t">>, <<"L","i","s","t">>>>,
      <<<<"S","y","s","t","e","m",".","C","o","l","l","e","c","t","i","o","n","s",".","G","e","n","e","r","i","c",".","I","R","e","a","d","O","n","l","y","L","i","s","t">>, <<"S","e","q","u","e","n","c","e">>>>,
      <<<<"S","y","s","t","e","m",".","C","o","l","l","e","c","t","i","o","n","s",".","G","e","n","e","r","i","c",".","I","E","n","u","m","e","r","a","b","l","e">>, <<"I","t","e","r","a","b","l","e">>>>,
      <<<<"S","y","s","t","e","m",".","C","o","l","l","e","c","t","i","o","n","s",".","G","e","n","e","r","i","c",".","I","C","o","l","l","e","c","t","i","o","n">>, <<"S","e","q","u","e","n","c","e">>>>,
      <<<<"S","y","s","t","e","m",".","C","o","l","l","e","c","t","i","o","n","s",".","G","e","n","e","r","i","c",".","D","i","c","t","i","o","n","a","r","y">>, <<"D","i","c","t">>>>,
      <<<<"S","y","s","t","e","m",".","C","o","l","l","e","c","t","i","o","n","s",".","G","e","n","e","r","i","c",".","I","D","i","c","t","i","o","n","a","r","y">>, <<"D","i","c","t">>>>,
      <<<<"S","y","s","t","e","m",".","T","u","p","l","e">>, <<"T","u","p","l","e">>>> }

\* line 244: the prefix with which (?:System\.)?Nullable\{(.+)\}$ matches t,
\* or the empty string when it does not match
NullablePrefix(t) ==
    IF StartsWith(t, <<"S","y","s","t","e","m",".","N","u","l","l","a","b","l","e","{">>) /\ EndsWith(t, <<"}">>) /\ Len(t) > Len(<<"S","y","s","t","e","m",".","N","u","l","l","a","b","l","e","{">>) + 1
    THEN <<"S","y","s","t","e","m",".","N","u","l","l","a","b","l","e","{">>
    ELSE IF StartsWith(t, <<"N","u","l","l","a","b","l","e","{">>) /\ EndsWith(t, <<"}">>) /\ Len(t) > Len(<<"N","u","l","l","a","b","l","e","{">>) + 1
    THEN <<"N","u","l","l","a","b","l","e","{">>
    ELSE <<>>

\* line 252: the group 'base' of (?P<base>[\w\.]+)\{(?P<inner>.+)\}$, the
\* longest run of word characters and dots that t starts with
GenericBase(t) ==
    LET stops == {i \in 1..Len(t) : ~(IsWord(t[i]) \/ t[i] = ".")}
    IN  IF stops = {} THEN t ELSE SubSeq(t, 1, MinOf(stops) - 1)

\* line 252: the pattern matches t
IsGeneric(t) ==
    LET n == Len(GenericBase(t))
    IN  n >= 1 /\ Len(t) >= n + 3 /\ t[n + 1] = "{" /\ EndsWith(t, <<"}">>)

\* a mutant of WrapList: the array is written with braces
WrapListInBraces(inner) == <<"L","i","s","t","{">> \o inner \o <<"}">>

\* line 242: f'List[{...}]'
WrapList(inner) == <<"L","i","s","t","[">> \o inner \o <<"]">>

\* a mutant of SelfReference: every unknown type is qualified by the container
SelfReferenceAlways(t, container_fqn, container_simple) == Truthy(container_simple)

\* line 275: the type is spelled as the containing class's simple name
SelfReference(t, container_fqn, container_simple) == Truthy(container_simple) /\ t = container_simple

RECURSIVE map_dotnet_to_python(_, _, _)
map_dotnet_to_python(t0, container_fqn, container_simple) ==
    LET t == Strip(t0)
        Rec(x) == map_dotnet_to_python(x, container_fqn, container_simple)
    IN  IF EndsWith(t, <<"[","]">>)
        THEN WrapList(Rec(Strip(SubSeq(t, 1, Len(t) - 2))))
        ELSE IF NullablePrefix(t) # <<>>
        THEN <<"O","p","t","i","o","n","a","l","[">> \o Rec(Strip(SubSeq(t, Len(NullablePrefix(t)) + 1, Len(t) - 1))) \o <<"]">>
        ELSE IF EndsWith(t, <<"?">>) /\ ~EndsWith(t, <<"?","?">>)
        THEN <<"O","p","t","i","o","n","a","l","[">> \o Rec(SubSeq(t, 1, Len(t) - 1)) \o <<"]">>
        ELSE IF IsGeneric(t)
        THEN LET base == GenericBase(t)
                 inner == SubSeq(t, Len(base) + 2, Len(t) - 1)
                 inner_parts == split_types_list(inner)
                 mapped_inners == [i \in 1..Len(inner_parts) |-> Rec(inner_parts[i])]
                 py_base == IF HasKey(base_map, base) THEN Lookup(base_map, base)
                            ELSE Last(SplitAll(base, <<".">>))
             IN  py_base \o <<"[">> \o Join(mapped_inners, <<","," ">>) \o <<"]">>
        ELSE IF HasKey(aliases, t) THEN Lookup(aliases, t)
        ELSE IF SelfReference(t, container_fqn, container_simple) THEN OrElse(container_fqn, t)
        ELSE t

(***************************************************************************)
(* Specification: map_dotnet_to_python applied to a type, then to its      *)
(* own result                                                              *)
(***************************************************************************)

MaxTypeDepth == 1

AliasInputs == { p[1] : p \in aliases }

GenericBases == { p[1] : p \in base_map } \cup { <<"R","h","i","n","o",".","C","o","l","l","e","c","t","i","o","n","s",".","R","h","i","n","o","L","i","s","t">> }

\* the array, nullable and one-argument generic forms of x
UnaryForms(x) ==
    { x \o <<"[","]">>, <<"N","u","l","l","a","b","l","e","{">> \o x \o <<"}">>, <<"S","y","s","t","e","m",".","N","u","l","l","a","b","l","e","{">> \o x \o <<"}">>, x \o <<"?">> }
    \cup { b \o <<"{">> \o x \o <<"}">> : b \in GenericBases }

\* the two-argument generic forms of x and y
BinaryForms(x, y) ==
    { b \o <<"{">> \o x \o <<",">> \o y \o <<"}">> : b \in { <<"S","y","s","t","e","m",".","C","o","l","l","e","c","t","i","o","n","s",".","G","e","n","e","r","i","c",".","D","i","c","t","i","o","n","a","r","y">>, <<"S","y","s","t","e","m",".","T","u","p","l","e">> } }

RECURSIVE TypeForms(_)
TypeForms(d) ==
    IF d = 0 THEN AliasInputs
    ELSE TypeForms(d - 1)
         \cup UNION { UnaryForms(x) : x \in TypeForms(d - 1) }
         \cup UNION { BinaryForms(x, y) : x \in AliasInputs, y \in AliasInputs }

DeepTypeExamples ==
    { <<"S","y","s","t","e","m",".","C","o","l","l","e","c","t","i","o","n","s",".","G","e","n","e","r","i","c",".","D","i","c","t","i","o","n","a","r","y","{","S","y","s","t","e","m",".","S","t","r","i","n","g",",","S","y","s","t","e","m",".","C","o","l","l","e","c","t","i","o","n","s",".","G","e","n","e","r","i","c",".","L","i","s","t","{","S","y","s","t","e","m",".","I","n","t","3","2","[","]","}","}">>,
      <<"S","y","s","t","e","m",".","N","u","l","l","a","b","l","e","{","S","y","s","t","e","m",".","D","o","u","b","l","e","}","[","]","[","]">>,
      <<"S","y","s","t","e","m",".","C","o","l","l","e","c","t","i","o","n","s",".","G","e","n","e","r","i","c",".","I","E","n","u","m","e","r","a","b","l","e","{","S","y","s","t","e","m",".","T","u","p","l","e","{","d","o","u","b","l","e",","," ","o","b","j","e","c","t","}","?","}">> }

TypeInputs == TypeForms(MaxTypeDepth) \cup DeepTypeExamples

\* the containing classes: none, an ordinary one, and classes whose simple
\* name is spelled like a label of the target vocabulary
ContainerInputs == { None, <<"R","h","i","n","o",".","D","i","s","p","l","a","y",".","C","o","l","o","r","H","S","L">>, <<"R","h","i","n","o",".","A","n","y">>, <<"N","s",".","s","t","r">>, <<"N","o","n","e">> }

\* line 281: container_fqn.split('.')[-1] if container_fqn else None
SimpleName(container_fqn) == IF Truthy(container_fqn) THEN Last(SplitAll(container_fqn, <<".">>)) ELSE None

CallMapDotnet ==
    /\ fn = "none"
    /\ \E x \in TypeInputs, c \in ContainerInputs :
         /\ fn' = "map_dotnet_to_python"
         /\ arg' = <<x, c, SimpleName(c)>>
         /\ ret' = map_dotnet_to_python(x, c, SimpleName(c))
    /\ UNCHANGED <<ret2, lines, nfiles, status>>

CallMapDotnetAgain ==
    /\ fn = "map_dotnet_to_python"
    /\ ret2 = None
    /\ ret2' = map_dotnet_to_python(ret, arg[2], arg[3])
    /\ UNCHANGED <<fn, arg, ret, lines, nfiles, status>>

NextMapA == CallMapDotnet \/ CallMapDotnetAgain

SpecMapA == Init /\ [][NextMapA]_vars

(***************************************************************************)
(* C6                                                                      *)
(***************************************************************************)

\* C6 as stated: for every containing class, normalizing a normalized label
\* changes nothing.
C6_Original == fn = "map_dotnet_to_python" /\ ret2 # None => ret2 = ret

\* C6 amended: normalize(normalize(x)) = normalize(x) for every containing
\* class whose simple name is not spelled like the label normalize(x); for a
\* class whose simple name is that label the second pass returns the class's
\* fully-qualified name.  'int[]' maps to 'List[int]' and 'Nullable{double}'
\* to 'Optional[float]'.
C6_IdempotentUnlessSelfReference ==
    fn = "map_dotnet_to_python" =>
        /\ (ret2 # None /\ ret # arg[3] => ret2 = ret)
        /\ (ret2 # None /\ ret = arg[3] => ret2 = arg[2])
        /\ (arg[1] = <<"i","n","t","[","]">> => ret = <<"L","i","s","t","[","i","n","t","]">>)
        /\ (arg[1] = <<"N","u","l","l","a","b","l","e","{","d","o","u","b","l","e","}">> => ret = <<"O","p","t","i","o","n","a","l","[","f","l","o","a","t","]">>)

\* C6 witness: a generic form built from aliases was normalized twice
C6_Witness ==
    /\ fn = "map_dotnet_to_python"
    /\ arg[1] = <<"S","y","s","t","e","m",".","C","o","l","l","e","c","t","i","o","n","s",".","G","e","n","e","r","i","c",".","D","i","c","t","i","o","n","a","r","y","{","S","y","s","t","e","m",".","S","t","r","i","n","g",",","S","y","s","t","e","m",".","I","n","t","3","2","}">>
    /\ arg[2] = <<"R","h","i","n","o",".","D","i","s","p","l","a","y",".","C","o","l","o","r","H","S","L">>
    /\ ret = <<"D","i","c","t","[","s","t","r",","," ","i","n","t","]">>
    /\ ret2 = <<"D","i","c","t","[","s","t","r",","," ","i","n","t","]">>

(***************************************************************************)
(* build_signature_line  (src/extract_api_signatures.py:279-307)           *)
(***************************************************************************)

\* an f-string field: None is written as 'None'
Fmt(x) == IF x = None THEN <<"N","o","n","e">> ELSE x

\* line 282: the record is a constructor
IsConstructor(container_simple, method_raw, cs_method_name) ==
    \/ method_raw = <<"#","c","t","o","r">>
    \/ (Truthy(cs_method_name) /\ Truthy(container_simple) /\ cs_method_name = container_simple)

\* a mutant of NamesDisagree: surplus names are not replaced
NamesTooFew(param_names, ann_types) == Len(param_names) < Len(ann_types)

\* line 296: the names are replaced by placeholders
NamesDisagree(param_names, ann_types) == Len(param_names) # Len(ann_types)

\* a mutant of TakesSelf: every non-static record gets 'self'
TakesSelfWheneverNotStatic(py_method_name, is_static, cs_method_name) ==
    py_method_name = <<"_","_","i","n","i","t","_","_">> \/ ~is_static

\* line 301: the record gets the parameter 'self'
TakesSelf(py_method_name, is_static, cs_method_name) ==
    py_method_name = <<"_","_","i","n","i","t","_","_">> \/ (~is_static /\ Truthy(cs_method_name))

\* a mutant of ConstructorReturn: a constructor keeps the recovered return type
ConstructorReturnRecovered(cs_return_type) == Fmt(cs_return_type)

\* line 284: py_return of a constructor
ConstructorReturn(cs_return_type) == <<"N","o","n","e">>

build_signature_line(container_fqn, method_raw, param_types, cs_return_type, cs_method_name, param_names, is_static) ==
    LET container_simple == SimpleName(container_fqn)
        ctor == IsConstructor(container_simple, method_raw, cs_method_name)
        py_method_name == IF ctor THEN <<"_","_","i","n","i","t","_","_">> ELSE OrElse(cs_method_name, method_raw)
        py_return == IF ctor THEN ConstructorReturn(cs_return_type)
                     ELSE map_dotnet_to_python(OrElse(cs_return_type, <<"N","o","n","e">>), container_fqn, container_simple)
        ann_types == [i \in 1..Len(param_types) |->
                        map_dotnet_to_python(param_types[i], container_fqn, container_simple)]
        names == IF NamesDisagree(param_names, ann_types)
                 THEN [i \in 1..Len(ann_types) |-> ArgName(i)]
                 ELSE param_names
        self == IF TakesSelf(py_method_name, is_static, cs_method_name) THEN <<<<"s","e","l","f">>>> ELSE <<>>
        params == self \o [i \in 1..Len(ann_types) |-> names[i] \o <<":"," ">> \o ann_types[i]]
        qualified == Fmt(container_fqn) \o <<".">> \o Fmt(py_method_name)
    IN  qualified \o <<"(">> \o Join(params, <<","," ">>) \o <<")"," ","-",">"," ">> \o py_return

(***************************************************************************)
(* Specification: build_signature_line applied to one merged record        *)
(***************************************************************************)

MaxBuildTypes == 2

MaxBuildNames == 2

BuildContainers == { <<"R","h","i","n","o",".","D","i","s","p","l","a","y",".","C","o","l","o","r","H","S","L">> }

BuildMethodRaws == { <<"#","c","t","o","r">>, <<"C","r","e","a","t","e","F","r","o","m","L","C","H">> }

BuildTypes == { <<"S","y","s","t","e","m",".","D","o","u","b","l","e">>, <<"R","h","i","n","o",".","D","i","s","p","l","a","y",".","C","o","l","o","r","L","C","H">>, <<"S","y","s","t","e","m",".","I","n","t","3","2","[","]">> }

BuildReturns == { None, <<"v","o","i","d">>, <<"C","o","l","o","r","H","S","L">>, <<"d","o","u","b","l","e">> }

BuildMethodNames == { None, <<"C","r","e","a","t","e","F","r","o","m","L","C","H">>, <<"C","o","l","o","r","H","S","L">> }

BuildNames == { <<"l","c","h">>, <<"h">> }

\* the records the two parsers can hand over: without a member name the
\* sample gave no return type and no parameter names either
BuildInputs ==
    { r \in [container_fqn : BuildContainers, method_raw : BuildMethodRaws,
             param_types : SeqsUpTo(BuildTypes, MaxBuildTypes), cs_return_type : BuildReturns,
             cs_method_name : BuildMethodNames, param_names : SeqsUpTo(BuildNames, MaxBuildNames),
             is_static : BOOLEAN] :
        r.cs_method_name = None => (r.cs_return_type = None /\ r.param_names = <<>>) }

CallBuildSignatureLine ==
    /\ fn = "none"
    /\ \E r \in BuildInputs :
         /\ fn' = "build_signature_line"
         /\ arg' = r
         /\ ret' = build_signature_line(r.container_fqn, r.method_raw, r.param_types, r.cs_return_type,
                                        r.cs_method_name, r.param_names, r.is_static)
    /\ UNCHANGED <<ret2, lines, nfiles, status>>

NextBuild == CallBuildSignatureLine

SpecBuild == Init /\ [][NextBuild]_vars

(***************************************************************************)
(* C9, C10                                                                 *)
(***************************************************************************)

\* the normalized type of the i-th metadata type of a record
AnnotationOf(r, i) == map_dotnet_to_python(r.param_types[i], r.container_fqn, SimpleName(r.container_fqn))

\* the names the line must show: the sample's names when there is one per
\* type, and else arg1..argN
ReconciledName(r, i) ==
    IF Len(r.param_names) = Len(r.param_types) THEN r.param_names[i] ELSE Placeholders[i]

\* 'name: type' for every metadata type, in type order, joined
ExpectedParamList(r) ==
    Join([i \in 1..Len(r.param_types) |-> ReconciledName(r, i) \o <<":"," ">> \o AnnotationOf(r, i)], <<","," ">>)

\* the parameter list of an emitted line: the text between the first '(' and
\* the last ') -> '
ParamListOf(line) == SubSeq(line, Find(line, <<"(">>) + 1, RFind(line, <<")"," ","-",">"," ">>) - 1)

\* the parameter list without a leading 'self'
WithoutSelf(plist) ==
    IF plist = <<"s","e","l","f">> THEN <<>>
    ELSE IF StartsWith(plist, <<"s","e","l","f",","," ">>) THEN From(plist, Len(<<"s","e","l","f",","," ">>) + 1)
    ELSE plist

\* C9: the emitted line has exactly one 'name: type' parameter per metadata
\* type, 'self' not counted, in type order, and when the name count differs
\* from the type count the names are exactly arg1..argN.
C9_ArityReconciled ==
    fn = "build_signature_line" => WithoutSelf(ParamListOf(ret)) = ExpectedParamList(arg)

\* C9 witness: two names met one type, and the line shows arg1 alone
C9_Witness ==
    /\ fn = "build_signature_line"
    /\ arg.param_names = <<<<"l","c","h">>, <<"h">>>>
    /\ arg.param_types = <<<<"R","h","i","n","o",".","D","i","s","p","l","a","y",".","C","o","l","o","r","L","C","H">>>>
    /\ arg.is_static
    /\ arg.method_raw = <<"C","r","e","a","t","e","F","r","o","m","L","C","H">>
    /\ ParamListOf(ret) = <<"a","r","g","1",":"," ","R","h","i","n","o",".","D","i","s","p","l","a","y",".","C","o","l","o","r","L","C","H">>

\* the record is constructor-identified
IsCtorRecord(r) ==
    r.method_raw = <<"#","c","t","o","r">> \/ (r.cs_method_name # None /\ r.cs_method_name = SimpleName(r.container_fqn))

\* the line gives 'self' as its first parameter
HasSelfFirst(line) == ParamListOf(line) = <<"s","e","l","f">> \/ StartsWith(ParamListOf(line), <<"s","e","l","f",","," ">>)

\* the member name of a line: the text between the container and the '('
MemberOf(r, line) == SubSeq(line, Len(r.container_fqn) + 2, Find(line, <<"(">>) - 1)

\* the return label of a line: the text after the last ') -> '
ReturnOf(line) == From(line, RFind(line, <<")"," ","-",">"," ">>) + Len(<<")"," ","-",">"," ">>))

\* C10 as stated: a constructor-identified record is emitted as __init__
\* returning None, and every non-static record that is no constructor is
\* emitted with 'self' first, also without a sample-derived member name.
C10_Original ==
    fn = "build_signature_line" =>
        /\ (IsCtorRecord(arg) => MemberOf(arg, ret) = <<"_","_","i","n","i","t","_","_">> /\ ReturnOf(ret) = <<"N","o","n","e">>)
        /\ (~IsCtorRecord(arg) /\ ~arg.is_static => HasSelfFirst(ret))

\* C10 amended: a constructor-identified record is emitted as __init__
\* returning None, with 'self' first; a record that is no constructor is
\* emitted with 'self' first exactly when it is non-static and a
\* sample-derived member name was recovered.
C10_ConstructorAndSelf ==
    fn = "build_signature_line" =>
        /\ (IsCtorRecord(arg) =>
              MemberOf(arg, ret) = <<"_","_","i","n","i","t","_","_">> /\ ReturnOf(ret) = <<"N","o","n","e">> /\ HasSelfFirst(ret))
        /\ (~IsCtorRecord(arg) => (HasSelfFirst(ret) <=> ~arg.is_static /\ arg.cs_method_name # None))

\* C10 witness: a sample-identified constructor with a recovered return type
C10_Witness ==
    /\ fn = "build_signature_line"
    /\ arg.method_raw = <<"C","r","e","a","t","e","F","r","o","m","L","C","H">>
    /\ arg.cs_method_name = <<"C","o","l","o","r","H","S","L">>
    /\ arg.cs_return_type = <<"d","o","u","b","l","e">>
    /\ arg.is_static
    /\ arg.param_types = <<<<"S","y","s","t","e","m",".","D","o","u","b","l","e">>>>
    /\ arg.param_names = <<<<"h">>>>
    /\ ret = <<"R","h","i","n","o",".","D","i","s","p","l","a","y",".","C","o","l","o","r","H","S","L",".","_","_","i","n","i","t","_","_","(","s","e","l","f",","," ","h",":"," ","f","l","o","a","t",")"," ","-",">"," ","N","o","n","e">>

(***************************************************************************)
(* process_file and main  (src/extract_api_signatures.py:34-65, 309-365)   *)
(*                                                                         *)
(* A page is the pair of what the two regular expressions of               *)
(* extract_help_id and extract_csharp_pre find in its markup: the content  *)
(* of the Microsoft.Help.Id meta tag and the text of the C# <pre> block,   *)
(* each None when the page has no such element.                            *)
(***************************************************************************)

\* lines 41-44: the content attribute, or None without the tag
extract_help_id(page) == page.meta

\* lines 52-65: the text of the block without '\r', trimmed, or None
extract_csharp_pre(page) ==
    IF page.pre = None THEN None ELSE Strip(Replace(page.pre, <<"\r">>, <<>>))

\* a mutant of IsNotAMethodPage: a page without a sample is skipped too
IsNotAMethodPageOrNoSample(container_fqn, method_raw, cs_method_name) ==
    ~Truthy(container_fqn) \/ ~Truthy(cs_method_name)

\* line 316
IsNotAMethodPage(container_fqn, method_raw, cs_method_name) ==
    ~Truthy(container_fqn) \/ ~(Truthy(method_raw) \/ Truthy(cs_method_name))

\* lines 309-322.  An exception of parse_help_id (line 312) is raised outside
\* the try block of lines 318-322 and leaves process_file.
process_file(page) ==
    LET help_id == extract_help_id(page)
        id == parse_help_id(OrElse(help_id, <<>>))
    IN  IF id.exc # "none" THEN Raise(id.exc)
        ELSE
        LET container_fqn == id.val[1]
            method_raw == id.val[2]
            param_types == id.val[3]
            cs_text == extract_csharp_pre(page)
            cs == parse_csharp_signature(OrElse(cs_text, <<>>), SimpleName(container_fqn))
        IN  IF IsNotAMethodPage(container_fqn, method_raw, cs[2]) THEN Return(None)
            ELSE Return(build_signature_line(container_fqn, method_raw, param_types,
                                             cs[1], cs[2], cs[3], cs[4]))

\* str < str
LexLess(a, b) ==
    LET differ == {i \in 1..Len(a) : i <= Len(b) /\ a[i] # b[i]}
    IN  IF differ = {} THEN Len(a) < Len(b)
        ELSE Ord(a[MinOf(differ)]) < Ord(b[MinOf(differ)])

\* the insertion of one line into a sorted list
RECURSIVE Insert(_, _)
Insert(sorted, x) ==
    IF sorted = <<>> THEN <<x>>
    ELSE IF LexLess(x, sorted[1]) THEN <<x>> \o sorted
    ELSE <<sorted[1]>> \o Insert(Tail(sorted), x)

\* line 358: lines.sort()
RECURSIVE Sorted(_)
Sorted(ls) == IF ls = <<>> THEN <<>> ELSE Insert(Sorted(SubSeq(ls, 1, Len(ls) - 1)), ls[Len(ls)])

(***************************************************************************)
(* Specification: main walks a directory of pages                          *)
(***************************************************************************)

MaxFiles == 2

PageMetas ==
    { None,
      <<"M",":","R","h","i","n","o",".","D","i","s","p","l","a","y",".","C","o","l","o","r","H","S","L",".","C","r","e","a","t","e","F","r","o","m","L","C","H","(","R","h","i","n","o",".","D","i","s","p","l","a","y",".","C","o","l","o","r","L","C","H",")">>,
      <<"M",":","R","h","i","n","o",".","D","i","s","p","l","a","y",".","C","o","l","o","r","H","S","L",".","#","c","t","o","r","(","S","y","s","t","e","m",".","D","o","u","b","l","e",",","S","y","s","t","e","m",".","D","o","u","b","l","e",")">>,
      <<"T",":","R","h","i","n","o",".","D","i","s","p","l","a","y",".","C","o","l","o","r","H","S","L">>,
      <<"M",":","o","p","_","I","m","p","l","i","c","i","t","(","S","y","s","t","e","m",".","I","n","t","3","2",")">>,
      <<"M",":">> }

PagePres ==
    { None,
      <<"p","u","b","l","i","c"," ","s","t","a","t","i","c"," ","C","o","l","o","r","H","S","L"," ","C","r","e","a","t","e","F","r","o","m","L","C","H","("," ","C","o","l","o","r","L","C","H"," ","l","c","h"," ",")">>,
      <<"p","u","b","l","i","c"," ","C","o","l","o","r","H","S","L","(","\r","\n","\t","d","o","u","b","l","e"," ","h",",","\r","\n","\t","d","o","u","b","l","e"," ","s","\r","\n",")">>,
      <<>> }

Pages == [meta : PageMetas, pre : PagePres]

\* lines 346-355: the walk hands over the next method page
ProcessNextFile ==
    /\ status \in {"idle", "walking"}
    /\ nfiles < MaxFiles
    /\ \E page \in Pages :
         LET r == process_file(page)
         IN  /\ fn' = "process_file"
             /\ arg' = page
             /\ ret' = r
             /\ nfiles' = nfiles + 1
             /\ IF r.exc # "none"
                THEN status' = "crashed" /\ lines' = lines
                ELSE /\ status' = "walking"
                     /\ lines' = IF Truthy(r.val) THEN Append(lines, r.val) ELSE lines
    /\ UNCHANGED ret2

\* lines 357-365: the walk is over, the lines are sorted and written
WriteOutput ==
    /\ status \in {"idle", "walking"}
    /\ status' = "written"
    /\ lines' = Sorted(lines)
    /\ UNCHANGED <<fn, arg, ret, ret2, nfiles>>

NextMain == ProcessNextFile \/ WriteOutput

SpecMain == Init /\ [][NextMain]_vars

(***************************************************************************)
(* C2                                                                      *)
(***************************************************************************)

\* C2: processing one page never raises, whatever the page holds: a malformed
\* page, also one whose metadata value starts with 'M:' and has no '.' in its
\* identity, is skipped and the run continues.
C2_NeverRaises ==
    /\ (fn = "process_file" => ret.exc = "none")
    /\ status # "crashed"

\* the pages of the model that are skipped as C2 says
C2_SkippedPageReached ==
    /\ fn = "process_file"
    /\ arg.meta = <<"T",":","R","h","i","n","o",".","D","i","s","p","l","a","y",".","C","o","l","o","r","H","S","L">>
    /\ ret = Return(None)
    /\ status = "walking"

(***************************************************************************)
(* build_type_mapper.map_type                                              *)
(* (src/extract_rhinoscriptsyntax_signatures.py:41-126)                    *)
(***************************************************************************)

\* the character U+2013, which line 82 replaces by '-'
EnDash == "en-dash"

\* line 41: (s or "").strip().lower()
norm(s) == Lower(Strip(IF s = None THEN <<>> ELSE s))

\* lines 46-60
py_map ==
    { <<<<"n","o","n","e">>, <<"N","o","n","e">>>>, <<<<"v","o","i","d">>, <<"N","o","n","e">>>>,
      <<<<"b","o","o","l">>, <<"b","o","o","l">>>>, <<<<"b","o","o","l","e","a","n">>, <<"b","o","o","l">>>>,
      <<<<"n","u","m","b","e","r">>, <<"f","l","o","a","t">>>>, <<<<"d","o","u","b","l","e">>, <<"f","l","o","a","t">>>>, <<<<"f","l","o","a","t">>, <<"f","l","o","a","t">>>>,
      <<<<"i","n","t">>, <<"i","n","t">>>>, <<<<"i","n","t","e","g","e","r">>, <<"i","n","t">>>>,
      <<<<"s","t","r">>, <<"s","t","r">>>>, <<<<"s","t","r","i","n","g">>, <<"s","t","r">>>>,
      <<<<"g","u","i","d">>, <<"s","t","r">>>>, <<<<"u","u","i","d">>, <<"s","t","r">>>>,
      <<<<"d","a","t","e">>, <<"d","a","t","e","t","i","m","e",".","d","a","t","e">>>>, <<<<"d","a","t","e","t","i","m","e",".","d","a","t","e">>, <<"d","a","t","e","t","i","m","e",".","d","a","t","e">>>>,
      <<<<"c","o","l","o","r">>, <<"T","u","p","l","e","[","i","n","t",","," ","i","n","t",","," ","i","n","t","]">>>>,
      <<<<"p","o","i","n","t">>, <<"T","u","p","l","e","[","f","l","o","a","t",","," ","f","l","o","a","t",","," ","f","l","o","a","t","]">>>>, <<<<"p","o","i","n","t","3","d">>, <<"T","u","p","l","e","[","f","l","o","a","t",","," ","f","l","o","a","t",","," ","f","l","o","a","t","]">>>>,
      <<<<"v","e","c","t","o","r">>, <<"T","u","p","l","e","[","f","l","o","a","t",","," ","f","l","o","a","t",","," ","f","l","o","a","t","]">>>>, <<<<"v","e","c","t","o","r","3","d">>, <<"T","u","p","l","e","[","f","l","o","a","t",","," ","f","l","o","a","t",","," ","f","l","o","a","t","]">>>>,
      <<<<"i","n","t","e","r","v","a","l">>, <<"T","u","p","l","e","[","f","l","o","a","t",","," ","f","l","o","a","t","]">>>>,
      <<<<"p","l","a","n","e">>, <<"A","n","y">>>>,
      <<<<"m","a","t","r","i","x">>, <<"L","i","s","t","[","L","i","s","t","[","f","l","o","a","t","]","]">>>>, <<<<"t","r","a","n","s","f","o","r","m">>, <<"L","i","s","t","[","L","i","s","t","[","f","l","o","a","t","]","]">>>> }

\* lines 62-76
dn_map ==
    { <<<<"n","o","n","e">>, <<"N","o","n","e">>>>, <<<<"v","o","i","d">>, <<"N","o","n","e">>>>,
      <<<<"b","o","o","l">>, <<"b","o","o","l">>>>, <<<<"b","o","o","l","e","a","n">>, <<"b","o","o","l">>>>,
      <<<<"n","u","m","b","e","r">>, <<"f","l","o","a","t">>>>, <<<<"d","o","u","b","l","e">>, <<"f","l","o","a","t">>>>, <<<<"f","l","o","a","t">>, <<"f","l","o","a","t">>>>,
      <<<<"i","n","t">>, <<"i","n","t">>>>, <<<<"i","n","t","e","g","e","r">>, <<"i","n","t">>>>,
      <<<<"s","t","r">>, <<"s","t","r">>>>, <<<<"s","t","r","i","n","g">>, <<"s","t","r">>>>,
      <<<<"g","u","i","d">>, <<"S","y","s","t","e","m",".","G","u","i","d">>>>, <<<<"u","u","i","d">>, <<"S","y","s","t","e","m",".","G","u","i","d">>>>,
      <<<<"d","a","t","e">>, <<"d","a","t","e","t","i","m","e",".","d","a","t","e">>>>, <<<<"d","a","t","e","t","i","m","e",".","d","a","t","e">>, <<"d","a","t","e","t","i","m","e",".","d","a","t","e">>>>,
      <<<<"c","o","l","o","r">>, <<"S","y","s","t","e","m",".","D","r","a","w","i","n","g",".","C","o","l","o","r">>>>,
      <<<<"p","o","i","n","t">>, <<"R","h","i","n","o",".","G","e","o","m","e","t","r","y",".","P","o","i","n","t","3","d">>>>, <<<<"p","o","i","n","t","3","d">>, <<"R","h","i","n","o",".","G","e","o","m","e","t","r","y",".","P","o","i","n","t","3","d">>>>,
      <<<<"v","e","c","t","o","r">>, <<"R","h","i","n","o",".","G","e","o","m","e","t","r","y",".","V","e","c","t","o","r","3","d">>>>, <<<<"v","e","c","t","o","r","3","d">>, <<"R","h","i","n","o",".","G","e","o","m","e","t","r","y",".","V","e","c","t","o","r","3","d">>>>,
      <<<<"i","n","t","e","r","v","a","l">>, <<"T","u","p","l","e","[","f","l","o","a","t",","," ","f","l","o","a","t","]">>>>,
      <<<<"p","l","a","n","e">>, <<"R","h","i","n","o",".","G","e","o","m","e","t","r","y",".","P","l","a","n","e">>>>,
      <<<<"m","a","t","r","i","x">>, <<"R","h","i","n","o",".","G","e","o","m","e","t","r","y",".","T","r","a","n","s","f","o","r","m">>>>, <<<<"t","r","a","n","s","f","o","r","m">>, <<"R","h","i","n","o",".","G","e","o","m","e","t","r","y",".","T","r","a","n","s","f","o","r","m">>>> }

\* line 77
BaseMapOf(style) == IF style = "dotnet" THEN dn_map ELSE py_map

\* dict.get(key, default)
Get(table, k, default) == IF HasKey(table, k) THEN Lookup(table, k) ELSE default

\* line 85: the alternatives of a union, trimmed, the empty ones dropped
Alternatives(t) ==
    LET raw == SplitAll(t, <<" ","o","r"," ">>)
    IN  SelectSeq([i \in 1..Len(raw) |-> Strip(raw[i])], NonEmpty)

\* a mutant of FirstKnown: the last alternative in the table is preferred
LastKnown(table, parts) ==
    LET hits == {i \in 1..Len(parts) : HasKey(table, parts[i])}
    IN  IF hits = {} THEN 0 ELSE MaxOf(hits)

\* lines 85-87: the index of the first alternative that is a key of the
\* table (every value of the tables is a non-empty label), or 0
FirstKnown(table, parts) ==
    LET hits == {i \in 1..Len(parts) : HasKey(table, parts[i])}
    IN  IF hits = {} THEN 0 ELSE MinOf(hits)

\* int(digits)
RECURSIVE ParseInt(_)
ParseInt(ds) ==
    IF ds = <<>> THEN 0
    ELSE 10 * ParseInt(SubSeq(ds, 1, Len(ds) - 1))
         + (CHOOSE v \in 0..9 : <<"0", "1", "2", "3", "4", "5", "6", "7", "8", "9">>[v + 1] = ds[Len(ds)])

\* line 97: the class [a-zA-Z0-9_.]
IsTupleBaseChar(c) == IsWord(c) \/ c = "."

\* line 97: re.match(r'(\d+)\s+([a-zA-Z0-9_.]+)s?$', inner) as <<n, base>>, or
\* <<>> when the pattern does not match
TupleMatch(inner) ==
    LET nd == IF \E i \in 1..Len(inner) : inner[i] \notin Digits
              THEN MinOf({i \in 1..Len(inner) : inner[i] \notin Digits}) - 1
              ELSE Len(inner)
        rest == From(inner, nd + 1)
        nw == IF \E i \in 1..Len(rest) : ~IsSpace(rest[i])
              THEN MinOf({i \in 1..Len(rest) : ~IsSpace(rest[i])}) - 1
              ELSE Len(rest)
        base == From(rest, nw + 1)
    IN  IF nd >= 1 /\ nw >= 1 /\ base # <<>> /\ \A i \in 1..Len(base) : IsTupleBaseChar(base[i])
        THEN <<SubSeq(inner, 1, nd), base>>
        ELSE <<>>

\* line 94: f'List[{map_type(inner)}]'
WrapListOf(inner_label) == <<"L","i","s","t","[">> \o inner_label \o <<"]">>

\* lines 79-125
RECURSIVE map_type(_, _)
map_type(label, style) ==
    LET t0 == norm(label)
        t == Replace(t0, <<EnDash>>, <<"-">>)
        table == BaseMapOf(style)
    IN  IF t0 = <<>> THEN <<"A","n","y">>
        ELSE IF Contains(t, <<" ","o","r"," ">>)
        THEN (IF FirstKnown(table, Alternatives(t)) # 0
              THEN Lookup(table, Alternatives(t)[FirstKnown(table, Alternatives(t))])
              ELSE map_type(SplitFirst(t, <<" ","o","r"," ">>)[1], style))
        ELSE IF StartsWith(t, <<"l","i","s","t"," ","o","f"," ">>) \/ StartsWith(t, <<"a","r","r","a","y"," ","o","f"," ">>)
        THEN WrapListOf(map_type(Strip(SplitFirst(t, <<" ","o","f"," ">>)[2]), style))
        ELSE IF StartsWith(t, <<"t","u","p","l","e"," ","o","f"," ">>)
        THEN LET m == TupleMatch(Strip(SplitFirst(t, <<" ","o","f"," ">>)[2]))
             IN  IF m # <<>>
                 THEN <<"T","u","p","l","e","[">> \o Join([i \in 1..ParseInt(m[1]) |-> map_type(m[2], style)], <<","," ">>) \o <<"]">>
                 ELSE <<"T","u","p","l","e","[","A","n","y",","," ",".",".",".","]">>
        ELSE IF HasKey(table, t) THEN Lookup(table, t)
        ELSE IF Contains(t, <<",">>) THEN map_type(Strip(SplitFirst(t, <<",">>)[1]), style)
        ELSE IF StartsWith(t, <<"[">>) /\ Contains(t, <<".",".",".">>) /\ (Contains(t, <<"g","u","i","d">>) \/ Contains(t, <<"u","u","i","d">>))
        THEN <<"L","i","s","t","[">> \o Get(table, <<"g","u","i","d">>, <<"s","t","r">>) \o <<"]">>
        ELSE IF Contains(t, <<"p","o","i","n","t">>) THEN Get(table, <<"p","o","i","n","t">>, None)
        ELSE IF Contains(t, <<"v","e","c","t","o","r">>) THEN Get(table, <<"v","e","c","t","o","r">>, None)
        ELSE IF Contains(t, <<"c","o","l","o","r">>) THEN Get(table, <<"c","o","l","o","r">>, None)
        ELSE IF Contains(t, <<"i","n","t","e","r","v","a","l">>) THEN Get(table, <<"i","n","t","e","r","v","a","l">>, None)
        ELSE IF Contains(t, <<"p","l","a","n","e">>) THEN Get(table, <<"p","l","a","n","e">>, None)
        ELSE IF Contains(t, <<"t","r","a","n","s","f","o","r","m">>) \/ Contains(t, <<"m","a","t","r","i","x">>) THEN Get(table, <<"t","r","a","n","s","f","o","r","m">>, None)
        ELSE <<"A","n","y">>

(***************************************************************************)
(* Specification: map_type applied to a free-text label, then to its own   *)
(* result                                                                  *)
(***************************************************************************)

MaxPhraseDepth == 2

TypeWords == { <<"n","u","m","b","e","r">>, <<"g","u","i","d">>, <<"p","o","i","n","t">>, <<"s","t","r">>, <<"c","u","r","v","e">>, <<"3","d"," ","p","o","i","n","t">> }

\* the phrases built on x: plurals, a tuple, a qualifier, unions
PhrasesOn(x) ==
    { <<"l","i","s","t"," ","o","f"," ">> \o x, <<"a","r","r","a","y"," ","o","f"," ">> \o x, <<"t","u","p","l","e"," ","o","f"," ","2"," ">> \o x, x \o <<","," ","o","p","t","i","o","n","a","l">> }
    \cup { x \o <<" ","o","r"," ">> \o w : w \in TypeWords }

RECURSIVE Phrases(_)
Phrases(d) ==
    IF d = 0 THEN TypeWords
    ELSE Phrases(d - 1) \cup UNION { PhrasesOn(x) : x \in Phrases(d - 1) }

PhraseExamples ==
    { <<>>, <<" "," ","N","u","m","b","e","r"," ">>, <<"[","g","u","i","d"," ",".",".",".","]">>, <<"T","u","p","l","e"," ","o","f"," ","3"," ","n","u","m","b","e","r","s">>, <<"t","u","p","l","e"," ","o","f"," ","m","a","n","y">>, <<"1", EnDash, "2">>,
      <<"o","b","j","e","c","t"," ","i","d">>, <<"t","r","a","n","s","f","o","r","m","a","t","i","o","n"," ","m","a","t","r","i","x">>, <<"l","i","s","t"," ","o","f"," ","l","i","s","t"," ","o","f"," ","n","u","m","b","e","r">> }

PhraseInputs == Phrases(MaxPhraseDepth) \cup PhraseExamples

Styles == { "dotnet", "python" }

CallMapType ==
    /\ fn = "none"
    /\ \E x \in PhraseInputs, style \in Styles :
         /\ fn' = "map_type"
         /\ arg' = <<x, style>>
         /\ ret' = map_type(x, style)
    /\ UNCHANGED <<ret2, lines, nfiles, status>>

CallMapTypeAgain ==
    /\ fn = "map_type"
    /\ ret2 = None
    /\ ret2' = map_type(ret, arg[2])
    /\ UNCHANGED <<fn, arg, ret, lines, nfiles, status>>

NextMapB == CallMapType \/ CallMapTypeAgain

SpecMapB == Init /\ [][NextMapB]_vars


\* the normalized text of the label given to map_type
MapTypeText == Replace(norm(arg[1]), <<EnDash>>, <<"-">>)

IsUnionText(t) == Contains(t, <<" ","o","r"," ">>)

IsPluralText(t) == StartsWith(t, <<"l","i","s","t"," ","o","f"," ">>) \/ StartsWith(t, <<"a","r","r","a","y"," ","o","f"," ">>)

PluralInner(t) == Strip(SplitFirst(t, <<" ","o","f"," ">>)[2])

DomainNouns == { <<"p","o","i","n","t">>, <<"v","e","c","t","o","r">>, <<"c","o","l","o","r">>, <<"i","n","t","e","r","v","a","l">>, <<"p","l","a","n","e">>, <<"t","r","a","n","s","f","o","r","m">>, <<"m","a","t","r","i","x">> }

\* free text that no rule of map_type recognizes
MatchesNoRule(t, style) ==
    /\ t # <<>>
    /\ ~IsUnionText(t)
    /\ ~IsPluralText(t)
    /\ ~StartsWith(t, <<"t","u","p","l","e"," ","o","f"," ">>)
    /\ ~HasKey(BaseMapOf(style), t)
    /\ ~Contains(t, <<",">>)
    /\ ~StartsWith(t, <<"[">>)
    /\ \A n \in DomainNouns : ~Contains(t, n)

\* an alternative resolves to a type when map_type gives it a label other
\* than the unknown label
Resolves(a, style) == map_type(a, style) # <<"A","n","y">>

FirstResolved(t, style) ==
    LET alts == Alternatives(t)
        hits == {i \in 1..Len(alts) : Resolves(alts[i], style)}
    IN  IF hits = {} THEN <<"A","n","y">> ELSE map_type(alts[MinOf(hits)], style)

FirstTableKey(t, style) ==
    LET alts == Alternatives(t)
        hits == {i \in 1..Len(alts) : \E kv \in BaseMapOf(style) : kv[1] = alts[i]}
    IN  IF hits = {} THEN map_type(alts[1], style)
        ELSE LET a == alts[MinOf(hits)]
             IN  (CHOOSE kv \in BaseMapOf(style) : kv[1] = a)[2]

IsLabel(r) == r # None /\ r # <<>> /\ \A i \in 1..Len(r) : r[i] \in STRING

\* C7: map_type is idempotent on already-normalized input: applied to a
\* label it returned, in either style, it returns that label again.
C7_Idempotent ==
    (fn = "map_type" /\ ret2 # None) => ret2 = ret

\* the labels of the claim's own examples that map_type does not return again
C7_GuidLabelReached ==
    /\ fn = "map_type"
    /\ arg = <<<<"g","u","i","d">>, "dotnet">>
    /\ ret = <<"S","y","s","t","e","m",".","G","u","i","d">>
    /\ ret2 = <<"A","n","y">>

\* C8 as stated: map_type always returns a label; a union returns the label
\* of the first alternative, left to right, that resolves to a type; a
\* 'list of X' / 'array of X' phrase returns 'List[' + map_type(X) + ']';
\* free text matching no rule returns 'Any'.
C8_Original ==
    fn = "map_type" =>
        /\ IsLabel(ret)
        /\ IsUnionText(MapTypeText) => ret = FirstResolved(MapTypeText, arg[2])
        /\ (IsPluralText(MapTypeText) /\ ~IsUnionText(MapTypeText))
               => ret = <<"L","i","s","t","[">> \o map_type(PluralInner(MapTypeText), arg[2]) \o <<"]">>
        /\ MatchesNoRule(MapTypeText, arg[2]) => ret = <<"A","n","y">>

\* C8 amended: map_type always returns a label; a union returns the table
\* label of the first alternative, left to right, that is itself a key of
\* the base table, and map_type of the first alternative when none is; a
\* 'list of X' / 'array of X' phrase without ' or ' returns
\* 'List[' + map_type(X) + ']'; free text matching no rule returns 'Any'.
C8_UnionByTableKey ==
    fn = "map_type" =>
        /\ IsLabel(ret)
        /\ IsUnionText(MapTypeText) => ret = FirstTableKey(MapTypeText, arg[2])
        /\ (IsPluralText(MapTypeText) /\ ~IsUnionText(MapTypeText))
               => ret = <<"L","i","s","t","[">> \o map_type(PluralInner(MapTypeText), arg[2]) \o <<"]">>
        /\ MatchesNoRule(MapTypeText, arg[2]) => ret = <<"A","n","y">>

C8_Witness ==
    /\ fn = "map_type"
    /\ arg = <<<<"l","i","s","t"," ","o","f"," ","p","o","i","n","t"," ","o","r"," ","g","u","i","d">>, "dotnet">>
    /\ ret = <<"S","y","s","t","e","m",".","G","u","i","d">>


(***************************************************************************)
(* C11                                                                     *)
(***************************************************************************)

\* the page of the end-to-end example and the record its two parsers give
ExamplePage ==
    [meta |-> <<"M",":","R","h","i","n","o",".","D","i","s","p","l","a","y",".","C","o","l","o","r","H","S","L",".","C","r","e","a","t","e","F","r","o","m","L","C","H","(","R","h","i","n","o",".","D","i","s","p","l","a","y",".","C","o","l","o","r","L","C","H",")">>,
     pre |-> <<"p","u","b","l","i","c"," ","s","t","a","t","i","c"," ","C","o","l","o","r","H","S","L"," ","C","r","e","a","t","e","F","r","o","m","L","C","H","("," ","C","o","l","o","r","L","C","H"," ","l","c","h"," ",")">>]

ExampleRecord ==
    [container_fqn |-> <<"R","h","i","n","o",".","D","i","s","p","l","a","y",".","C","o","l","o","r","H","S","L">>, method_raw |-> <<"C","r","e","a","t","e","F","r","o","m","L","C","H">>,
     param_types |-> <<<<"R","h","i","n","o",".","D","i","s","p","l","a","y",".","C","o","l","o","r","L","C","H">>>>, cs_return_type |-> <<"C","o","l","o","r","H","S","L">>,
     cs_method_name |-> <<"C","r","e","a","t","e","F","r","o","m","L","C","H">>, param_names |-> <<<<"l","c","h">>>>, is_static |-> TRUE]

ExampleLine == <<"R","h","i","n","o",".","D","i","s","p","l","a","y",".","C","o","l","o","r","H","S","L",".","C","r","e","a","t","e","F","r","o","m","L","C","H","(","l","c","h",":"," ","R","h","i","n","o",".","D","i","s","p","l","a","y",".","C","o","l","o","r","L","C","H",")"," ","-",">"," ","R","h","i","n","o",".","D","i","s","p","l","a","y",".","C","o","l","o","r","H","S","L">>

\* the line starts with the metadata-derived container and a dot
HasContainerPrefix(r, line) == StartsWith(line, r.container_fqn \o <<".">>)

\* the Variant A normalization of the sample's return type of a record
NormalizedReturn(r) ==
    map_dotnet_to_python(r.cs_return_type, r.container_fqn, SimpleName(r.container_fqn))

\* C11 as stated: the line is '<container>.<name>(<p1>: <T1>, ...) -> <R>'
\* with the metadata-derived container as prefix, every Ti the
\* normalization of the i-th metadata type, and R the normalization of the
\* sample's return type, the container's simple name rewritten to its
\* fully-qualified name.
C11_Original ==
    fn = "build_signature_line" =>
        /\ HasContainerPrefix(arg, ret)
        /\ WithoutSelf(ParamListOf(ret)) = ExpectedParamList(arg)
        /\ (arg.cs_return_type # None => ReturnOf(ret) = NormalizedReturn(arg))
        /\ (arg = ExampleRecord => ret = ExampleLine)

\* C11 amended: the prefix is the metadata-derived container and every Ti the
\* normalization of the i-th metadata type; for a record that is not
\* constructor-identified R is the normalization of the sample's return
\* type, a return type equal to the container's simple name giving the
\* fully-qualified name, and 'None' when the sample gave no return type; for
\* a constructor-identified record R is 'None' also when the sample gave a
\* return type.  The example gives the example's line.
C11_LineFormat ==
    fn = "build_signature_line" =>
        /\ HasContainerPrefix(arg, ret)
        /\ WithoutSelf(ParamListOf(ret)) = ExpectedParamList(arg)
        /\ (~IsCtorRecord(arg) /\ arg.cs_return_type # None => ReturnOf(ret) = NormalizedReturn(arg))
        /\ (~IsCtorRecord(arg) /\ arg.cs_return_type = SimpleName(arg.container_fqn)
               => ReturnOf(ret) = arg.container_fqn)
        /\ (~IsCtorRecord(arg) /\ arg.cs_return_type = None => ReturnOf(ret) = <<"N","o","n","e">>)
        /\ (IsCtorRecord(arg) => ReturnOf(ret) = <<"N","o","n","e">>)
        /\ (arg = ExampleRecord => ret = ExampleLine)

\* C11 witness: the record of the example, which the example's page gives
\* too, and its line
C11_Witness ==
    /\ fn = "build_signature_line"
    /\ arg = ExampleRecord
    /\ ret = ExampleLine
    /\ process_file(ExamplePage) = Return(ExampleLine)


(***************************************************************************)
(* iter_blocks  (src/extract_rhinoscriptsyntax_signatures.py:19-39)        *)
(*                                                                         *)
(* A document is a sequence of markup items, each one the text that one    *)
(* of the regular expressions of lines 19-22 and 251-263 recognizes, or a  *)
(* run of other text.  An item is [k, v]: k its kind, v its text content.  *)
(*   "anchor"  a whole element matched by ANCHOR_RE, v the name of group 2 *)
(*   "opener"  an anchor opening tag that ANCHOR_RE does not match (the    *)
(*             div inside has no id) but NEXT_BLOCK_RE does                *)
(*   "panel"   <div class="code_panel">, matched by CODEPANEL_RE           *)
(*   "h2"      <h2 ...>, matched by NEXT_BLOCK_RE                          *)
(*   "nl"      one newline character                                       *)
(*   "text"    other text                                                  *)
(*   "python"  <pre><code class="language-python">v</code></pre>           *)
(*   "vb"      <pre><code class="language-vb">v</code></pre>               *)
(*   "pre"     <pre>v</pre>                                                *)
(*   "params"  <h3>Parameters</h3>                                         *)
(*   "returns" <h3>Returns</h3>                                            *)
(* Offsets count items from 0 as the code counts characters: the item at   *)
(* offset n is doc[n + 1], and doc[a:b] is SubSeq(doc, a + 1, b).          *)
(***************************************************************************)

Item(k, v) == [k |-> k, v |-> v]

\* html_text[a:b]
Slice(doc, a, b) == SubSeq(doc, a + 1, b)

\* line 19, ANCHOR_RE: the item starts a match
IsAnchor(item) == item.k = "anchor"

\* line 20, CODEPANEL_RE
IsCodePanel(item) == item.k = "panel"

\* a mutant of IsNextBlock: a top-level heading ends no section
IsNextBlockAnchorOnly(item) == item.k \in {"anchor", "opener"}

\* line 21, NEXT_BLOCK_RE: the item starts with an anchor opening tag or <h2
IsNextBlock(item) == item.k \in {"anchor", "opener", "h2"}

\* RE.search(html_text, pos) for a pattern that matches single items: the
\* offset of the first matching item at or after pos, or -1 without a match
SearchItem(doc, pos, Matches(_)) ==
    LET hits == {n \in pos..(Len(doc) - 1) : Matches(doc[n + 1])}
    IN  IF hits = {} THEN -1 ELSE MinOf(hits)

\* line 35, NEXT_BLOCK_RE.search(html_text, pos).start(): the first offset
\* at or after pos where an anchor opening tag or <h2 starts or where '$'
\* matches, which is the end of the text and the place before a final newline
SearchNextBlock(doc, pos) ==
    MinOf({n \in pos..Len(doc) :
             \/ n = Len(doc)
             \/ (n = Len(doc) - 1 /\ doc[Len(doc)].k = "nl")
             \/ (n < Len(doc) /\ IsNextBlock(doc[n + 1]))})

\* lines 26-39: the generator runs from pos to its next yield; the result is
\* empty when the loop breaks, and else holds the yielded pair with the
\* offsets m, m2.end() and end that gave it
RECURSIVE NextBlock(_, _)
NextBlock(html_text, pos) ==
    LET m == SearchItem(html_text, pos, IsAnchor)
    IN  IF m < 0 THEN <<>>
        ELSE LET m2 == SearchItem(html_text, m + 1, IsCodePanel)
             IN  IF m2 < 0 THEN NextBlock(html_text, m + 1)
                 ELSE LET end == SearchNextBlock(html_text, m2 + 1)
                      IN  <<[func_name |-> Strip(html_text[m + 1].v),
                             panel_html |-> Slice(html_text, m2 + 1, end),
                             anchor |-> m, start |-> m2 + 1, end |-> end]>>

(***************************************************************************)
(* Specification: iter_blocks over one document, one yield at a time       *)
(*   arg the document, nfiles the variable pos, lines the pairs yielded,   *)
(*   ret the offsets of the sections yielded                               *)
(***************************************************************************)

MaxDocLen == 4

ScanItems ==
    { Item("anchor", <<" ","F","o","o"," ">>), Item("opener", <<>>), Item("panel", <<>>), Item("h2", <<>>),
      Item("nl", <<"\n">>), Item("text", <<"x">>) }

ScanDocs == SeqsUpTo(ScanItems, MaxDocLen)

CallIterBlocks ==
    /\ fn = "none"
    /\ \E doc \in ScanDocs :
         /\ fn' = "iter_blocks"
         /\ arg' = doc
    /\ nfiles' = 0
    /\ status' = "scanning"
    /\ UNCHANGED <<ret, ret2, lines>>

\* next(generator) with a yield
YieldBlock ==
    /\ fn = "iter_blocks"
    /\ status = "scanning"
    /\ NextBlock(arg, nfiles) # <<>>
    /\ LET b == NextBlock(arg, nfiles)[1]
       IN  /\ lines' = Append(lines, <<b.func_name, b.panel_html>>)
           /\ ret' = Append(ret, [anchor |-> b.anchor, start |-> b.start, end |-> b.end])
           /\ nfiles' = b.end
    /\ UNCHANGED <<fn, arg, ret2, status>>

\* next(generator) that ends the loop
StopIteration ==
    /\ fn = "iter_blocks"
    /\ status = "scanning"
    /\ NextBlock(arg, nfiles) = <<>>
    /\ status' = "exhausted"
    /\ UNCHANGED <<fn, arg, ret, ret2, lines, nfiles>>

NextIter == CallIterBlocks \/ YieldBlock \/ StopIteration

SpecIter == Init /\ [][NextIter]_vars

(***************************************************************************)
(* C13                                                                     *)
(***************************************************************************)

AnchorMarkerAt(doc, n) == n < Len(doc) /\ doc[n + 1].k \in {"anchor", "opener"}

HeadingAt(doc, n) == n < Len(doc) /\ doc[n + 1].k = "h2"

PanelAt(doc, n) == n < Len(doc) /\ doc[n + 1].k = "panel"

\* the end of the document, a final newline left out or not
IsDocumentEnd(doc, n) == n = Len(doc) \/ (n = Len(doc) - 1 /\ doc[Len(doc)].k = "nl")

\* the sections are in document order and their scopes do not overlap
ScopesInOrder ==
    \A j \in 1..Len(ret) :
        /\ ret[j].anchor < ret[j].start /\ ret[j].start <= ret[j].end
        /\ j > 1 => ret[j - 1].end <= ret[j].anchor

\* the scope of a section starts right after the nearest content-panel
\* opener that follows the section's anchor
StartsAtNearestPanel(doc, sc) ==
    /\ doc[sc.anchor + 1].k = "anchor"
    /\ PanelAt(doc, sc.start - 1)
    /\ \A n \in (sc.anchor + 1)..(sc.start - 2) : ~PanelAt(doc, n)

\* the scope ends at the first anchor marker or top-level heading after its
\* start, or at the end of the document
EndsAtBoundary(doc, sc) ==
    /\ AnchorMarkerAt(doc, sc.end) \/ HeadingAt(doc, sc.end) \/ IsDocumentEnd(doc, sc.end)
    /\ \A n \in sc.start..(sc.end - 1) : ~AnchorMarkerAt(doc, n) /\ ~HeadingAt(doc, n)

\* the content lies before the next anchor marker: none stands between the
\* section's anchor and its scope
ContentBeforeNextAnchor(doc, sc) ==
    \A n \in (sc.anchor + 1)..(sc.start - 1) : ~AnchorMarkerAt(doc, n)

\* C13 as stated: the sections come in document order with scopes that do
\* not overlap; each scope starts at the nearest content-panel opener after
\* its own anchor and ends at the first following anchor marker, <h2> or the
\* end of the document; no scope contains an anchor marker or an <h2>, and
\* no section takes its content from beyond the next anchor.
C13_Original ==
    fn = "iter_blocks" =>
        /\ ScopesInOrder
        /\ \A j \in 1..Len(ret) :
              /\ StartsAtNearestPanel(arg, ret[j])
              /\ EndsAtBoundary(arg, ret[j])
              /\ ContentBeforeNextAnchor(arg, ret[j])

\* C13 amended: the sections come in document order with scopes that do not
\* overlap; each is the section of the first anchor at or after the end of
\* the scope before it that has a content-panel opener somewhere after it;
\* its scope starts at the nearest such opener, whatever stands in between,
\* and ends at the first following anchor marker, <h2> or the end of the
\* document, a final newline left out; no scope contains an anchor marker or
\* an <h2>; the pair yielded is the trimmed name of the anchor and the text
\* of the scope.
C13_ScopesFromNearestPanel ==
    fn = "iter_blocks" =>
        /\ ScopesInOrder
        /\ Len(lines) = Len(ret)
        /\ \A j \in 1..Len(ret) :
              /\ StartsAtNearestPanel(arg, ret[j])
              /\ EndsAtBoundary(arg, ret[j])
              /\ (IsDocumentEnd(arg, ret[j].end) /\ arg[Len(arg)].k = "nl") => ret[j].end = Len(arg) - 1
              /\ \A n \in (IF j = 1 THEN 0 ELSE ret[j - 1].end)..(ret[j].anchor - 1) :
                    arg[n + 1].k = "anchor" => \A p \in n..(Len(arg) - 1) : ~PanelAt(arg, p)
              /\ lines[j] = <<Strip(arg[ret[j].anchor + 1].v), Slice(arg, ret[j].start, ret[j].end)>>

\* C13 witness: the first anchor has no panel of its own and its section is
\* given the content that follows the second anchor
C13_Witness ==
    /\ fn = "iter_blocks"
    /\ arg = <<Item("anchor", <<" ","F","o","o"," ">>), Item("anchor", <<" ","F","o","o"," ">>), Item("panel", <<>>), Item("text", <<"x">>)>>
    /\ status = "exhausted"
    /\ ret = <<[anchor |-> 0, start |-> 3, end |-> 4]>>
    /\ lines = << <<<<"F","o","o">>, <<Item("text", <<"x">>)>> >> >>


(***************************************************************************)
(* parse_returns_block                                                     *)
(* (src/extract_rhinoscriptsyntax_signatures.py:166-183)                   *)
(***************************************************************************)

\* str.splitlines() for the line breaks '\n', '\r' and '\r\n'
RECURSIVE SplitLines(_)
SplitLines(s) ==
    LET breaks == {i \in 1..Len(s) : s[i] \in {"\n", "\r"}}
    IN  IF s = <<>> THEN <<>>
        ELSE IF breaks = {} THEN <<s>>
        ELSE LET b == MinOf(breaks)
                 skip == IF s[b] = "\r" /\ b < Len(s) /\ s[b + 1] = "\n" THEN 2 ELSE 1
             IN  <<SubSeq(s, 1, b - 1)>> \o SplitLines(From(s, b + skip))

\* a mutant of SearchWords: the case of the letters counts
SearchWordsCased(s, words) ==
    \E i \in Occurrences(s, words) :
        /\ (i = 1 \/ ~IsWord(s[i - 1]))
        /\ (i + Len(words) - 1 = Len(s) \/ ~IsWord(s[i + Len(words)]))

\* re.search(r'\b<words>\b', s, re.IGNORECASE) for words, given in lower
\* case, that start and end with a word character
SearchWords(s, words) ==
    \E i \in Occurrences(Lower(s), words) :
        /\ (i = 1 \/ ~IsWord(s[i - 1]))
        /\ (i + Len(words) - 1 = Len(s) \/ ~IsWord(s[i + Len(words)]))

\* line 167
StrippedLines(pre_text) ==
    LET raw == SplitLines(pre_text)
    IN  SelectSeq([i \in 1..Len(raw) |-> Strip(raw[i])], NonEmpty)

\* lines 170-178: the loop over the lines; st is <<ret_type, saw_none>>
RECURSIVE ReturnsLoop(_, _, _, _)
ReturnsLoop(lns, i, st, style) ==
    IF i > Len(lns) THEN st
    ELSE LET saw_none == st[2] \/ SearchWords(lns[i], <<"n","o","n","e"," ","o","n"," ","e","r","r","o","r">>)
             token == SplitFirst(lns[i], <<":">>)[1]
             t == map_type(token, style)
             ret_type == IF st[1] = None THEN t ELSE st[1]
         IN  ReturnsLoop(lns, i + 1, <<ret_type, saw_none>>, style)

\* lines 166-183, with the map_type of the given style
parse_returns_block(pre_text, style) ==
    LET st == ReturnsLoop(StrippedLines(pre_text), 1, <<None, FALSE>>, style)
        ret_type == IF st[1] = None THEN <<"N","o","n","e">> ELSE st[1]
    IN  IF st[2] /\ ret_type # <<"N","o","n","e">> /\ ~StartsWith(ret_type, <<"O","p","t","i","o","n","a","l","[">>)
        THEN <<"O","p","t","i","o","n","a","l","[">> \o ret_type \o <<"]">>
        ELSE ret_type

(***************************************************************************)
(* Specification: parse_returns_block applied to one returns section       *)
(***************************************************************************)

MaxReturnLines == 2

\* lines of a returns section: the text, whether it mentions the sentinel,
\* and the type label it starts with
ReturnLineSamples ==
    { [text |-> <<"g","u","i","d",":"," ","t","h","e"," ","i","d">>, sentinel |-> FALSE, label |-> <<"g","u","i","d">>],
      [text |-> <<" "," ","N","o","n","e"," ","o","n"," ","e","r","r","o","r">>, sentinel |-> TRUE, label |-> <<"N","o","n","e"," ","o","n"," ","e","r","r","o","r">>],
      [text |-> <<"n","u","m","b","e","r",":"," ","x",","," ","N","O","N","E"," ","O","N"," ","E","R","R","O","R",".">>, sentinel |-> TRUE, label |-> <<"n","u","m","b","e","r">>],
      [text |-> <<"N","o","n","e",":"," ","n","o","t","h","i","n","g">>, sentinel |-> FALSE, label |-> <<"N","o","n","e">>],
      [text |-> <<"l","i","s","t"," ","o","f"," ","p","o","i","n","t"," ">>, sentinel |-> FALSE, label |-> <<"l","i","s","t"," ","o","f"," ","p","o","i","n","t">>],
      [text |-> <<"b","o","o","l",":"," ","n","o","n","e"," ","o","n"," ","e","r","r","o","r","s">>, sentinel |-> FALSE, label |-> <<"b","o","o","l">>],
      [text |-> <<"N","o","n","e",":","N","o","n","e"," ","o","n"," ","e","r","r","o","r">>, sentinel |-> TRUE, label |-> <<"N","o","n","e">>],
      [text |-> <<" ">>, sentinel |-> FALSE, label |-> <<>>] }

LineBreaks == { <<"\n">>, <<"\r","\n">> }

ReturnsSections == SeqsUpTo(ReturnLineSamples, MaxReturnLines)

CallParseReturnsBlock ==
    /\ fn = "none"
    /\ \E sec \in ReturnsSections, br \in LineBreaks, style \in Styles :
         /\ fn' = "parse_returns_block"
         /\ arg' = [section |-> sec, pre_text |-> Join([i \in 1..Len(sec) |-> sec[i].text], br), style |-> style]
         /\ ret' = parse_returns_block(Join([i \in 1..Len(sec) |-> sec[i].text], br), style)
    /\ UNCHANGED <<ret2, lines, nfiles, status>>

NextReturns == CallParseReturnsBlock

SpecReturns == Init /\ [][NextReturns]_vars

(***************************************************************************)
(* C14                                                                     *)
(***************************************************************************)

\* some line of the section mentions the sentinel
MentionsSentinel(sec) == \E i \in 1..Len(sec) : sec[i].sentinel

\* the type of the section: the label of its first line that is not blank,
\* mapped, and 'None' for a section without such a line
SectionType(sec, style) ==
    LET idx == {i \in 1..Len(sec) : sec[i].label # <<>>}
    IN  IF idx = {} THEN <<"N","o","n","e">> ELSE map_type(sec[MinOf(idx)].label, style)

IsOptionalWrapped(label) == StartsWith(label, <<"O","p","t","i","o","n","a","l","[">>) /\ EndsWith(label, <<"]">>)

\* C14 as stated: the lines are reduced to one return type; whenever a line
\* mentions the 'None on error' sentinel the result is 'Optional[T]', and
\* without the sentinel the result is never optional-wrapped.
C14_Original ==
    fn = "parse_returns_block" =>
        /\ MentionsSentinel(arg.section) => IsOptionalWrapped(ret)
        /\ ~MentionsSentinel(arg.section) => ~IsOptionalWrapped(ret)

\* C14 amended: the result is built on the type T of the first line that is
\* not blank ('None' without such a line); when a line mentions the sentinel
\* and T is not 'None' the result is 'Optional[T]'; when T is 'None' the
\* result is 'None' also with the sentinel; without the sentinel the result
\* is T and is never optional-wrapped.
C14_OptionalUnlessNone ==
    fn = "parse_returns_block" =>
        LET T == SectionType(arg.section, arg.style)
        IN  /\ (MentionsSentinel(arg.section) /\ T # <<"N","o","n","e">>) => ret = <<"O","p","t","i","o","n","a","l","[">> \o T \o <<"]">>
            /\ (MentionsSentinel(arg.section) /\ T = <<"N","o","n","e">>) => ret = <<"N","o","n","e">>
            /\ ~MentionsSentinel(arg.section) => (ret = T /\ ~IsOptionalWrapped(ret))

\* C14 witness: the sentinel on the second line wraps the type of the first
C14_Witness ==
    /\ fn = "parse_returns_block"
    /\ arg.pre_text = <<"g","u","i","d",":"," ","t","h","e"," ","i","d","\r","\n"," "," ","N","o","n","e"," ","o","n"," ","e","r","r","o","r">>
    /\ arg.style = "dotnet"
    /\ ret = <<"O","p","t","i","o","n","a","l","[","S","y","s","t","e","m",".","G","u","i","d","]">>


(***************************************************************************)
(* html_to_text, parse_signature, parse_params_block and                   *)
(* build_typed_signature                                                   *)
(* (src/extract_rhinoscriptsyntax_signatures.py:15-17, 128-164, 185-235)   *)
(***************************************************************************)

\* line 16: re.sub(r'<[^>]+>', '', s).  A match starts at a '<' that has a
\* character other than '>' after it and a '>' further on, and ends at the
\* first '>' after that '<'.
RECURSIVE StripTags(_)
StripTags(s) ==
    LET closing(i) == {j \in (i + 1)..Len(s) : s[j] = ">"}
        opens == {i \in 1..Len(s) : s[i] = "<" /\ closing(i) # {} /\ MinOf(closing(i)) > i + 1}
    IN  IF opens = {} THEN s
        ELSE LET i == MinOf(opens)
             IN  SubSeq(s, 1, i - 1) \o StripTags(From(s, MinOf(closing(i)) + 1))

\* the character references of the model: the names lt, gt and amp, with the
\* ';' and, as html.unescape accepts them, without it
Html5 == { <<<<"l","t",";">>, "<">>, <<<<"l","t">>, "<">>, <<<<"g","t",";">>, ">">>, <<<<"g","t">>, ">">>, <<<<"a","m","p",";">>, "&">>, <<<<"a","m","p">>, "&">> }

\* the characters that cannot be part of a reference name
EndsReference(c) == c \in {"\t", "\n", " ", "<", "&", "#", ";"}

\* line 17: html.unescape(s), for text without numeric references
RECURSIVE Unescape(_)
Unescape(s) ==
    LET amps == {i \in 1..Len(s) : s[i] = "&" /\ i < Len(s) /\ ~EndsReference(s[i + 1])}
    IN  IF amps = {} THEN s
        ELSE LET i == MinOf(amps)
                 stops == {j \in (i + 1)..Len(s) : EndsReference(s[j])}
                 e0 == IF stops = {} THEN Len(s) ELSE MinOf(stops) - 1
                 e == IF e0 < Len(s) /\ s[e0 + 1] = ";" THEN e0 + 1 ELSE e0
                 ref == SubSeq(s, i + 1, e)
                 known == {x \in 2..(Len(ref) - 1) : HasKey(Html5, SubSeq(ref, 1, x))}
                 text == IF HasKey(Html5, ref) THEN <<Lookup(Html5, ref)>>
                         ELSE IF known # {}
                         THEN <<Lookup(Html5, SubSeq(ref, 1, MaxOf(known)))>> \o From(ref, MaxOf(known) + 1)
                         ELSE <<"&">> \o ref
             IN  SubSeq(s, 1, i - 1) \o text \o Unescape(From(s, e + 1))

\* lines 15-17
html_to_text(s) == Bind(StripTags(s), LAMBDA stripped : Unescape(stripped))

\* the length of the longest prefix of s whose characters all satisfy Class
RunLength(s, Class(_)) ==
    LET stops == {i \in 1..Len(s) : ~Class(s[i])}
    IN  IF stops = {} THEN Len(s) ELSE MinOf(stops) - 1

IsNameStart(c) == IsAlpha(c) \/ c = "_"

\* line 188: re.match(r'^\s*([A-Za-z_]\w*)\s*\(\s*(.*?)\s*\)\s*$', line) as
\* <<name, params_raw>>, or <<>> without a match
SignatureMatch(line) ==
    LET body == From(line, RunLength(line, IsSpace) + 1)
        n == RunLength(body, IsWord)
        after == From(body, n + 1)
        rest == From(after, RunLength(after, IsSpace) + 1)
        tail == RStrip(rest)
    IN  IF body # <<>> /\ IsNameStart(body[1]) /\ rest # <<>> /\ rest[1] = "("
           /\ Len(tail) >= 2 /\ tail[Len(tail)] = ")"
        THEN <<SubSeq(body, 1, n), Strip(SubSeq(tail, 2, Len(tail) - 1))>>
        ELSE <<>>

\* lines 197-208: the loop over the characters of params_raw
ParamStep(st, ch) ==
    CASE ch = "(" -> [st EXCEPT !.depth = @ + 1, !.buf = Append(@, ch)]
      [] ch = ")" -> [st EXCEPT !.depth = IF @ - 1 > 0 THEN @ - 1 ELSE 0, !.buf = Append(@, ch)]
      [] ch = "," /\ st.depth = 0 -> [st EXCEPT !.parts = Append(@, Strip(st.buf)), !.buf = <<>>]
      [] OTHER -> [st EXCEPT !.buf = Append(@, ch)]

RECURSIVE ParamLoop(_, _, _, _)
ParamLoop(s, lo, hi, st) ==
    IF lo > hi THEN st
    ELSE IF lo = hi THEN ParamStep(st, s[lo])
    ELSE Bind(ParamLoop(s, lo, (lo + hi) \div 2, st),
              LAMBDA half : ParamLoop(s, (lo + hi) \div 2 + 1, hi, half))

\* lines 214-218: one part as <<name, default>>
ParamOf(p) ==
    IF Contains(p, <<"=">>)
    THEN <<Strip(SplitFirst(p, <<"=">>)[1]), Strip(SplitFirst(p, <<"=">>)[2])>>
    ELSE <<Strip(p), None>>

\* a mutant of FirstLine: a text without a line has the empty line
FirstLineOrEmpty(text_lines) == Return(IF text_lines = <<>> THEN <<>> ELSE text_lines[1])

\* line 187: sig_text.splitlines()[0], an IndexError for a text without lines
FirstLine(text_lines) == IF text_lines = <<>> THEN Raise("IndexError") ELSE Return(text_lines[1])

\* lines 185-219: <<name, params>>, name None without a match
parse_signature(sig_text) ==
    Bind(FirstLine(SplitLines(Replace(Strip(sig_text), <<"\r">>, <<>>))), LAMBDA first :
        IF first.exc # "none" THEN first
        ELSE Bind(SignatureMatch(first.val), LAMBDA m :
            IF m = <<>> THEN Return(<<None, <<>> >>)
            ELSE Bind(ParamLoop(m[2], 1, Len(m[2]), [parts |-> <<>>, buf |-> <<>>, depth |-> 0]), LAMBDA st :
                LET parts == IF st.buf # <<>> THEN Append(st.parts, Strip(st.buf)) ELSE st.parts
                    kept == SelectSeq(parts, NonEmpty)
                IN  Return(<<m[1], [i \in 1..Len(kept) |-> ParamOf(kept[i])]>>))))

\* s[a:b] for a >= 0 and any b
PySlice(s, a, b) ==
    LET stop == IF b < 0 THEN (IF Len(s) + b > 0 THEN Len(s) + b ELSE 0)
                ELSE IF b > Len(s) THEN Len(s) ELSE b
    IN  SubSeq(s, a + 1, stop)

\* s.find(sub), counted from 0, -1 without an occurrence
PyFind(s, sub) == IF Contains(s, sub) THEN Find(s, sub) - 1 ELSE -1

\* s.rfind(sub)
PyRFind(s, sub) == IF Contains(s, sub) THEN RFind(s, sub) - 1 ELSE -1

IsParamNameChar(c) == IsWord(c) \/ c = "," \/ IsSpace(c)

\* line 128: PARAM_LINE_RE.match(text) as <<names_part, type_label>>, or <<>>
ParamLineMatch(text) ==
    LET n == RunLength(text, IsParamNameChar)
        rest == From(text, n + 1)
    IN  IF text # <<>> /\ IsNameStart(text[1]) /\ rest # <<>> /\ rest[1] = "(" /\ Contains(rest, <<")">>)
        THEN <<SubSeq(text, 1, n), SubSeq(rest, 2, Find(rest, <<")">>) - 1)>>
        ELSE <<>>

\* the names of a names_part: lines 152, 159
NamesOf(names_part) ==
    LET raw == SplitAll(names_part, <<",">>)
    IN  SelectSeq([i \in 1..Len(raw) |-> Strip(raw[i])], NonEmpty)

\* mapping[nm] = info for every nm of names: lines 155-156, 162-163.  The
\* dict is the set of its <<name, type, optional>> entries.
PutAll(mapping, names, type, optional) ==
    {en \in mapping : \A i \in 1..Len(names) : en[1] # names[i]}
        \cup {<<names[i], type, optional>> : i \in 1..Len(names)}

\* lines 139-163: the body of the loop for one raw line
ParamsLine(mapping, raw_line, style) ==
    LET line == RStrip(raw_line)
        m == ParamLineMatch(Strip(line))
        optional == SearchWords(line, <<"o","p","t","i","o","n","a","l">>)
    IN  IF Strip(line) = <<>> THEN mapping
        ELSE IF (StartsWith(line, <<" "," ">>) \/ StartsWith(line, <<"\t">>)) /\ mapping # {} THEN mapping
        ELSE IF m = <<>>
        THEN (IF Contains(line, <<"(">>) /\ Contains(line, <<")">>)
              THEN LET left == SplitFirst(line, <<":">>)[1]
                       names_part == Strip(SplitAll(left, <<"(">>)[1])
                       inner == PySlice(left, PyFind(left, <<"(">>) + 1, PyRFind(left, <<")">>))
                       inner_clean == Strip(SplitAll(inner, <<",">>)[1])
                   IN  PutAll(mapping, NamesOf(names_part), map_type(inner_clean, style), optional)
              ELSE mapping)
        ELSE PutAll(mapping, NamesOf(m[1]), map_type(Strip(SplitAll(m[2], <<",">>)[1]), style), optional)

RECURSIVE ParamsLoop(_, _, _, _)
ParamsLoop(raw_lines, i, mapping, style) ==
    IF i > Len(raw_lines) THEN mapping
    ELSE ParamsLoop(raw_lines, i + 1, ParamsLine(mapping, raw_lines[i], style), style)

\* lines 132-164, with the map_type of the given style
parse_params_block(pre_text, style) == ParamsLoop(SplitLines(pre_text), 1, {}, style)

\* line 224: param_types.get(name, {'type': 'Any', 'optional': False})
ParamInfo(param_types, name) ==
    IF \E en \in param_types : en[1] = name
    THEN CHOOSE en \in param_types : en[1] = name
    ELSE <<name, <<"A","n","y">>, FALSE>>

\* lines 224-233: one item of the parameter list
TypedItem(param_types, name, default) ==
    LET ann == ParamInfo(param_types, name)[2]
        optional == ParamInfo(param_types, name)[3]
    IN  IF optional /\ default = None /\ ann \notin {<<"A","n","y">>, <<"N","o","n","e">>} /\ ~StartsWith(ann, <<"O","p","t","i","o","n","a","l","[">>)
        THEN name \o <<":"," ","O","p","t","i","o","n","a","l","[">> \o ann \o <<"]"," ","="," ","N","o","n","e">>
        ELSE IF default = None THEN name \o <<":"," ">> \o ann
        ELSE name \o <<":"," ">> \o ann \o <<" ","="," ">> \o default

\* lines 221-235
build_typed_signature(func_name, sig_params, param_types, returns_type) ==
    <<"r","h","i","n","o","s","c","r","i","p","t","s","y","n","t","a","x",".">> \o func_name \o <<"(">>
        \o Join([i \in 1..Len(sig_params) |-> TypedItem(param_types, sig_params[i][1], sig_params[i][2])], <<","," ">>)
        \o <<")"," ","-",">"," ">> \o returns_type


(***************************************************************************)
(* extract_all  (src/extract_rhinoscriptsyntax_signatures.py:237-273)      *)
(***************************************************************************)

\* line 22, SIG_RE
IsPythonCode(item) == item.k = "python"

\* line 251: the header of the parameters section
IsParamsHeader(item) == item.k = "params"

\* line 261: the header of the returns section
IsReturnsHeader(item) == item.k = "returns"

\* lines 254, 263: <pre[^>]*>([\s\S]*?)</pre> matches every <pre> block
IsPre(item) == item.k \in {"pre", "python", "vb"}

\* group 1 of that match: the text of the block, inside its <code> element
\* when the block has one
PreContent(item) == IF item.k = "pre" THEN item.v ELSE <<"<","c","o","d","e",">">> \o item.v \o <<"<","/","c","o","d","e",">">>

\* the text of the first <pre> block after the first header of the kind, or
\* None: lines 251-256, 261-265
SectionText(panel_html, IsHeader(_)) ==
    LET hdr == SearchItem(panel_html, 0, IsHeader)
        pre == IF hdr < 0 THEN -1 ELSE SearchItem(panel_html, hdr + 1, IsPre)
    IN  IF pre < 0 THEN None ELSE html_to_text(PreContent(panel_html[pre + 1]))

\* lines 242-267: the body of the loop for one section; the value is the
\* line to append, None for a section that is skipped
BlockLine(panel_html, style) ==
    LET m_sig == SearchItem(panel_html, 0, IsPythonCode)
    IN  IF m_sig < 0 THEN Return(None)
        ELSE
        Bind(Strip(html_to_text(panel_html[m_sig + 1].v)), LAMBDA sig_text :
        Bind(parse_signature(sig_text), LAMBDA parsed :
            IF parsed.exc # "none" THEN parsed
            ELSE IF ~Truthy(parsed.val[1]) THEN Return(None)
            ELSE
            Bind(SectionText(panel_html, IsParamsHeader), LAMBDA params_block :
            Bind(SectionText(panel_html, IsReturnsHeader), LAMBDA returns_block :
            Bind(IF params_block = None THEN {} ELSE parse_params_block(params_block, style), LAMBDA param_types :
            Bind(IF returns_block = None THEN <<"N","o","n","e">> ELSE parse_returns_block(returns_block, style), LAMBDA returns_type :
                Return(build_typed_signature(parsed.val[1], parsed.val[2], param_types, returns_type))))))))

\* the first occurrences of the elements of a list
RECURSIVE Dedup(_)
Dedup(ls) ==
    IF ls = <<>> THEN <<>>
    ELSE LET front == Dedup(SubSeq(ls, 1, Len(ls) - 1))
         IN  IF \E i \in 1..Len(front) : front[i] = ls[Len(ls)] THEN front ELSE Append(front, ls[Len(ls)])

(***************************************************************************)
(* Specification: extract_all over one document, one section at a time     *)
(*   arg the document, nfiles the position of iter_blocks, lines the list  *)
(*   lines, ret the outcome of the last section                            *)
(***************************************************************************)

MaxSections == 2

\* what follows the content-panel opener of a section
SectionBodies ==
    { << Item("python", <<"F","o","o","(","a",","," ","b","=","1",")">>), Item("params", <<>>), Item("pre", <<"a"," ","(","n","u","m","b","e","r",")",":"," ","x","\n","b"," ","(","g","u","i","d",","," ","o","p","t","i","o","n","a","l",")">>),
         Item("returns", <<>>), Item("pre", <<"g","u","i","d",":"," ","i","d","\n","N","o","n","e"," ","o","n"," ","e","r","r","o","r">>) >>,
      << Item("python", <<"B","a","r","(","<","b",">","w",","," ","h","<","/","b",">",")","\n","m","o","r","e">>), Item("params", <<>>), Item("vb", <<"w",","," ","h"," ","(","n","u","m","b","e","r",","," ","o","p","t","i","o","n","a","l",")">>) >>,
      << Item("python", <<"B","a","z","(",")">>) >>,
      << Item("python", <<"n","o","t"," ","a"," ","c","a","l","l">>) >>,
      << Item("python", <<>>) >>,
      << Item("python", <<" ","\n">>) >>,
      << Item("python", <<"<","b",">","<","/","b",">">>) >>,
      << Item("vb", <<"F","o","o","(","a",")">>) >>,
      << Item("text", <<"x">>) >> }

Sections == { <<Item("anchor", <<"F","o","o">>), Item("panel", <<>>)>> \o body : body \in SectionBodies }

ExtractDocs == { Concat(secs) : secs \in SeqsUpTo(Sections, MaxSections) }

CallExtractAll ==
    /\ fn = "none"
    /\ \E doc \in ExtractDocs :
         /\ fn' = "extract_all"
         /\ arg' = doc
    /\ nfiles' = 0
    /\ status' = "scanning"
    /\ UNCHANGED <<ret, ret2, lines>>

\* lines 241-267: one pass of the loop; an exception leaves extract_all
ExtractNextBlock ==
    /\ fn = "extract_all"
    /\ status = "scanning"
    /\ NextBlock(arg, nfiles) # <<>>
    /\ \E b \in {NextBlock(arg, nfiles)[1]} : \E r \in {BlockLine(b.panel_html, "dotnet")} :
           /\ ret' = r
           /\ IF r.exc # "none"
              THEN status' = "crashed" /\ UNCHANGED <<lines, nfiles>>
              ELSE /\ status' = status
                   /\ nfiles' = b.end
                   /\ lines' = IF r.val = None THEN lines ELSE Append(lines, r.val)
    /\ UNCHANGED <<fn, arg, ret2>>

\* lines 269-273: the loop is over, the lines are made unique, sorted and
\* written
WriteSignatures ==
    /\ fn = "extract_all"
    /\ status = "scanning"
    /\ NextBlock(arg, nfiles) = <<>>
    /\ lines' = Sorted(Dedup(lines))
    /\ status' = "written"
    /\ UNCHANGED <<fn, arg, ret, ret2, nfiles>>

NextExtract == CallExtractAll \/ ExtractNextBlock \/ WriteSignatures

SpecExtract == Init /\ [][NextExtract]_vars

(***************************************************************************)
(* C12                                                                     *)
(***************************************************************************)

\* C12: a section with no recoverable invocation example - no python code
\* block, an empty one, or a first line that is no name(...) - is skipped
\* without raising, and the run goes on to the next section: extract_all
\* never ends by an exception.
C12_SkipsWithoutRaising ==
    fn = "extract_all" => status # "crashed"

\* the sections that are skipped as C12 says: no python code block, or a
\* first line that is no call
C12_SkippedSectionReached ==
    /\ fn = "extract_all"
    /\ arg = <<Item("anchor", <<"F","o","o">>), Item("panel", <<>>), Item("python", <<"n","o","t"," ","a"," ","c","a","l","l">>),
               Item("anchor", <<"F","o","o">>), Item("panel", <<>>), Item("python", <<"B","a","z","(",")">>)>>
    /\ status = "written"
    /\ lines = <<<<"r","h","i","n","o","s","c","r","i","p","t","s","y","n","t","a","x",".","B","a","z","(",")"," ","-",">"," ","N","o","n","e">>>>

\* the section with an empty python code block, which ends the run
C12_EmptyCodeBlockReached ==
    /\ fn = "extract_all"
    /\ status = "crashed"
    /\ arg = <<Item("anchor", <<"F","o","o">>), Item("panel", <<>>), Item("python", <<>>),
               Item("anchor", <<"F","o","o">>), Item("panel", <<>>), Item("python", <<"B","a","z","(",")">>)>>
    /\ ret = Raise("IndexError")
    /\ lines = <<>>

====
